---- MODULE Spec2Model ----
(***************************************************************************)
(* The function-locating and statement-slicing engine of the context       *)
(* extractor (context_extractor/compress.py, extract.py and their          *)
(* helpers), as a state machine over one invocation.                       *)
(*                                                                         *)
(* A source text is a sequence of tokens, "\n" being the line terminator;  *)
(* a token is either one character that the engine looks for (" ", "\t",   *)
(* "{", ...) or one delimiter ("//", "/*", "*/", "#") or an opaque run of    *)
(* other characters.  A syntax tree is the table of the nodes the          *)
(* tree-sitter parser returns for that text: node i is tree[i], node 1 is  *)
(* the root, rows are 0-based and children lists hold every child, the     *)
(* anonymous tokens included (Node.children).                              *)
(***************************************************************************)
EXTENDS Integers, Sequences, FiniteSets, TLC

\* ------------------------------------------------------------------ bounds
\* Largest max_backward_depth an invocation is given.
MaxDepth == 3
\* Number of assignment statements in a generated chain function.
ChainLen == 3

\* -------------------------------------------------------- generic helpers
Max(a, b) == IF a >= b THEN a ELSE b
Min(a, b) == IF a <= b THEN a ELSE b
Range(s) == {s[i] : i \in DOMAIN s}
Last(s) == s[Len(s)]
Front(s) == SubSeq(s, 1, Len(s) - 1)

SetMin(S) == CHOOSE x \in S : \A y \in S : x <= y

RECURSIVE Flatten(_)
\* The concatenation of a sequence of sequences.
Flatten(ss) == IF ss = <<>> THEN <<>> ELSE Head(ss) \o Flatten(Tail(ss))

\* ------------------------------------------------------------ text helpers
Whitespace == {" ", "\t"}
Ellipsis == "U+2026"

\* str.strip() is non-empty: the line holds a token that is not whitespace.
NonBlank(line) == \E i \in DOMAIN line : line[i] \notin Whitespace

\* Index of the first token of the line that is not whitespace (Len+1 if none).
RECURSIVE LeadingWs(_)
LeadingWs(line) ==
  IF line = <<>> \/ Head(line) \notin Whitespace THEN 0 ELSE 1 + LeadingWs(Tail(line))

\* str.lstrip()
LStrip(line) == SubSeq(line, LeadingWs(line) + 1, Len(line))

\* str.rstrip()
RECURSIVE RStrip(_)
RStrip(line) ==
  IF line = <<>> \/ Last(line) \notin Whitespace THEN line ELSE RStrip(Front(line))

\* str.strip()
Strip(line) == RStrip(LStrip(line))

\* str.find(tok, from): 0-based index of the first occurrence at or after
\* `from', -1 if there is none.
Find(line, tok, from) ==
  LET hits == {i \in DOMAIN line : i - 1 >= from /\ line[i] = tok}
  IN IF hits = {} THEN -1 ELSE SetMin(hits) - 1

\* str.splitlines() of a text whose only line terminator is "\n": the runs
\* between terminators, a last run without terminator included if not empty.
splitlines(text) ==
  LET nl == {i \in DOMAIN text : text[i] = "\n"}
      n == Cardinality(nl)
      pos(k) == IF k = 0 THEN 0
                ELSE IF k > n THEN Len(text) + 1
                ELSE CHOOSE i \in nl : Cardinality({j \in nl : j < i}) = k - 1
      count == IF text # <<>> /\ Last(text) # "\n" THEN n + 1 ELSE n
  IN [k \in 1 .. count |-> SubSeq(text, pos(k - 1) + 1, pos(k) - 1)]

\* The text of a file whose lines are `ls', each terminated by "\n".
FileText(ls) == Flatten([i \in DOMAIN ls |-> Append(ls[i], "\n")])

\* "\n".join(out)
JoinLines(out) ==
  Flatten([i \in DOMAIN out |-> IF i = 1 THEN out[i] ELSE <<"\n">> \o out[i]])

\* ---------------------------------------------------- language profiles
\* config.py, LANG_NODESETS: node types per role.  A role a profile does not
\* define is absent from the record's domain.
LANG_NODESETS ==
  [ cpp |->
      [ function |-> {"function_definition", "function_declaration", "lambda_expression"},
        block |-> {"compound_statement", "lambda_expression", "function_definition"},
        key |-> {"assignment_expression", "compound_assignment_expression",
                 "declaration", "call_expression", "if_statement", "return_statement",
                 "for_statement", "for_range_loop"},
        ident |-> {"identifier", "field_identifier", "scoped_identifier"},
        member_like |-> {"field_expression", "scoped_identifier"},
        assign |-> {"assignment_expression", "compound_assignment_expression"},
        declaration |-> {"declaration", "init_declarator"},
        loop |-> {"for_statement", "for_range_loop"},
        call |-> {"call_expression"},
        control |-> {"if_statement", "for_statement", "for_range_loop",
                     "while_statement", "do_statement", "switch_statement"},
        closing_is_brace |-> TRUE,
        line_comment_prefix |-> "//" ],
    java |->
      [ function |-> {"method_declaration", "constructor_declaration", "lambda_expression"},
        block |-> {"block", "lambda_expression"},
        key |-> {"assignment_expression", "local_variable_declaration", "method_invocation",
                 "if_statement", "return_statement", "for_statement",
                 "enhanced_for_statement"},
        ident |-> {"identifier"},
        member_like |-> {"field_access", "method_invocation"},
        loop |-> {"for_statement", "enhanced_for_statement"},
        assign |-> {"assignment_expression"},
        declaration |-> {"local_variable_declaration"},
        call |-> {"method_invocation"},
        control |-> {"if_statement", "for_statement", "enhanced_for_statement",
                     "while_statement", "switch_expression", "switch_statement"},
        closing_is_brace |-> TRUE,
        line_comment_prefix |-> "//" ],
    javascript |->
      [ function |-> {"function_declaration", "function", "method_definition",
                      "arrow_function"},
        block |-> {"statement_block", "function", "method_definition"},
        key |-> {"assignment_expression", "augmented_assignment_expression",
                 "variable_declaration", "lexical_declaration", "call_expression",
                 "if_statement", "return_statement", "for_statement",
                 "for_in_statement", "for_of_statement"},
        ident |-> {"identifier", "shorthand_property_identifier", "property_identifier"},
        member_like |-> {"member_expression"},
        assign |-> {"assignment_expression", "augmented_assignment_expression"},
        declaration |-> {"variable_declaration", "lexical_declaration"},
        loop |-> {"for_statement", "for_in_statement", "for_of_statement"},
        call |-> {"call_expression"},
        control |-> {"if_statement", "for_statement", "for_in_statement",
                     "for_of_statement", "while_statement", "switch_statement"},
        closing_is_brace |-> TRUE,
        line_comment_prefix |-> "//" ],
    python |->
      [ function |-> {"function_definition", "lambda"},
        block |-> {"block", "function_definition"},
        key |-> {"assignment", "augmented_assignment", "expression_statement", "call",
                 "if_statement", "return_statement", "for_statement"},
        ident |-> {"identifier"},
        member_like |-> {"attribute"},
        assign |-> {"assignment", "augmented_assignment"},
        declaration |-> {},
        call |-> {"call"},
        loop |-> {"for_statement"},
        control |-> {"if_statement", "for_statement", "while_statement"},
        closing_is_brace |-> FALSE,
        line_comment_prefix |-> "#" ],
    csharp |->
      [ function |-> {"method_declaration", "constructor_declaration",
                      "local_function_statement"},
        block |-> {"block", "method_declaration", "constructor_declaration"},
        key |-> {"assignment_expression", "declaration_expression", "invocation_expression",
                 "if_statement", "return_statement", "for_statement", "foreach_statement",
                 "while_statement"},
        ident |-> {"identifier"},
        member_like |-> {"member_access_expression", "qualified_name"},
        call |-> {"invocation_expression"},
        loop |-> {"for_statement", "foreach_statement", "while_statement"},
        control |-> {"if_statement", "for_statement", "foreach_statement",
                     "while_statement"},
        closing_is_brace |-> TRUE,
        line_comment_prefix |-> "//" ],
    typescript |->
      [ function |-> {"function_declaration", "method_definition", "arrow_function",
                      "function_signature"},
        block |-> {"statement_block", "function_declaration", "class_body"},
        key |-> {"assignment_expression", "lexical_declaration", "call_expression",
                 "if_statement", "return_statement", "for_statement", "while_statement"},
        ident |-> {"identifier", "shorthand_property_identifier"},
        member_like |-> {"member_expression", "subscript_expression"},
        call |-> {"call_expression"},
        loop |-> {"for_statement", "while_statement", "for_in_statement",
                  "for_of_statement"},
        control |-> {"if_statement", "for_statement", "while_statement"},
        closing_is_brace |-> TRUE,
        line_comment_prefix |-> "//" ],
    go |->
      [ function |-> {"function_declaration", "method_declaration"},
        block |-> {"block", "function_declaration", "method_declaration"},
        key |-> {"short_var_declaration", "assignment_statement", "call_expression",
                 "if_statement", "return_statement", "for_statement"},
        ident |-> {"identifier"},
        member_like |-> {"selector_expression"},
        call |-> {"call_expression"},
        loop |-> {"for_statement"},
        control |-> {"if_statement", "for_statement"},
        closing_is_brace |-> TRUE,
        line_comment_prefix |-> "//" ],
    ruby |->
      [ function |-> {"method", "singleton_method"},
        block |-> {"block", "method"},
        key |-> {"assignment", "call", "if", "return"},
        ident |-> {"identifier", "constant"},
        member_like |-> {"call"},
        call |-> {"call"},
        loop |-> {"for"},
        control |-> {"if", "elsif", "unless"},
        closing_is_brace |-> FALSE,
        line_comment_prefix |-> "#" ],
    kotlin |->
      [ function |-> {"function_declaration"},
        block |-> {"block", "function_declaration"},
        key |-> {"assignment", "call_expression", "if_expression", "return_expression",
                 "for_statement", "while_statement"},
        ident |-> {"simple_identifier"},
        member_like |-> {"navigation_expression", "member_access_operator"},
        call |-> {"call_expression"},
        loop |-> {"for_statement", "while_statement"},
        control |-> {"if_expression", "when_expression", "for_statement",
                     "while_statement"},
        closing_is_brace |-> TRUE,
        line_comment_prefix |-> "//" ],
    php |->
      [ function |-> {"function_definition", "method_declaration",
                      "anonymous_function_creation_expression", "arrow_function"},
        block |-> {"compound_statement", "function_definition", "method_declaration",
                   "anonymous_function_creation_expression"},
        key |-> {"assignment_expression", "expression_statement",
                 "function_call_expression", "if_statement", "return_statement",
                 "for_statement", "while_statement", "foreach_statement"},
        ident |-> {"name", "variable_name"},
        member_like |-> {"member_access_expression", "scoped_call_expression"},
        assign |-> {"assignment_expression"},
        declaration |-> {},
        call |-> {"function_call_expression", "method_call_expression",
                  "scoped_call_expression"},
        loop |-> {"for_statement", "while_statement", "foreach_statement"},
        control |-> {"if_statement", "for_statement", "while_statement",
                     "foreach_statement"},
        closing_is_brace |-> TRUE,
        line_comment_prefix |-> "//" ] ]

\* config.py, COMMENT_STYLE
NoCommentStyle == [line |-> <<>>, block |-> <<>>]
CStyleComments == [line |-> <<"//">>, block |-> << <<"/*", "*/">> >>]
HashComments == [line |-> <<"#">>, block |-> <<>>]

COMMENT_STYLE ==
  [ cpp |-> CStyleComments, java |-> CStyleComments, javascript |-> CStyleComments,
    python |-> HashComments, csharp |-> CStyleComments, typescript |-> CStyleComments,
    go |-> CStyleComments, ruby |-> HashComments, kotlin |-> CStyleComments ]

\* COMMENT_STYLE.get(lang_key, {"line": [], "block": []})
CommentStyleOf(lang_key) ==
  IF lang_key \in DOMAIN COMMENT_STYLE THEN COMMENT_STYLE[lang_key] ELSE NoCommentStyle

\* ts_utils.py, SUPPORTED_LANGUAGES: extension -> compiled grammar.
SUPPORTED_LANGUAGES ==
  [ e \in { <<".", "py">>, <<".", "h">>, <<".", "hpp">>, <<".", "cpp">>, <<".", "c">>,
            <<".", "cc">>, <<".", "cxx">>, <<".", "js">>, <<".", "mjs">>, <<".", "cjs">>,
            <<".", "java">>, <<".", "cs">>, <<".", "ts">>, <<".", "go">>, <<".", "rb">>,
            <<".", "kt">> } |->
      CASE e[2] = "py" -> "PY_LANGUAGE"
        [] e[2] \in {"h", "hpp", "cpp", "c", "cc", "cxx"} -> "CPP_LANGUAGE"
        [] e[2] \in {"js", "mjs", "cjs"} -> "JS_LANGUAGE"
        [] e[2] = "java" -> "JAVA_LANGUAGE"
        [] e[2] = "cs" -> "CSHARP_LANGUAGE"
        [] e[2] = "ts" -> "TYPESCRIPT_LANGUAGE"
        [] e[2] = "go" -> "GO_LANGUAGE"
        [] e[2] = "rb" -> "RUBY_LANGUAGE"
        [] e[2] = "kt" -> "KOTLIN_LANGUAGE" ]

\* str.lower() on the tokens of a file name.
LowerTok(t) ==
  CASE t = "CPP" -> "cpp"
    [] t = "PY" -> "py"
    [] t = "Java" -> "java"
    [] t = "GO" -> "go"
    [] t = "PHP" -> "php"
    [] t = "EXAMPLE" -> "example"
    [] OTHER -> t

lower(s) == [i \in DOMAIN s |-> LowerTok(s[i])]

\* pathlib: PurePath.suffix of a file name given as its tokens, "." being a
\* token of its own: the part from the last dot on, empty if there is no
\* dot, if the only dot leads the name or if the name ends with the dot.
suffix(name) ==
  LET dots == {i \in DOMAIN name : name[i] = "."}
      k == CHOOSE i \in dots : \A j \in dots : j <= i
  IN IF dots = {} THEN <<>>
     ELSE IF k = 1 \/ k = Len(name) THEN <<>>
     ELSE SubSeq(name, k, Len(name))

\* detect_language with a default in place of the ValueError: an extension
\* that is not in the table resolves to the C++ profile.
detect_language_default(filepath) ==
  LET ext == lower(suffix(filepath)) IN
  IF ext \notin DOMAIN SUPPORTED_LANGUAGES
  THEN [ok |-> TRUE, lang |-> "CPP_LANGUAGE", lang_key |-> "cpp", error |-> <<>>]
  ELSE [ok |-> TRUE, lang |-> SUPPORTED_LANGUAGES[ext], lang_key |-> "cpp", error |-> <<>>]

\* ts_utils.py, detect_language: a record [ok, lang, lang_key, error]; ok is
\* FALSE when ValueError is raised, error then holds the tokens of its message.
detect_language(filepath) ==
  LET ext == lower(suffix(filepath)) IN
  IF ext \notin DOMAIN SUPPORTED_LANGUAGES
  THEN [ok |-> FALSE, lang |-> "", lang_key |-> "",
        error |-> <<"Unsupported file extension: ">> \o ext]
  ELSE LET lang == SUPPORTED_LANGUAGES[ext]
           key == CASE lang = "CPP_LANGUAGE" -> "cpp"
                    [] lang = "PY_LANGUAGE" -> "python"
                    [] lang = "JS_LANGUAGE" -> "javascript"
                    [] lang = "JAVA_LANGUAGE" -> "java"
                    [] lang = "CSHARP_LANGUAGE" -> "csharp"
                    [] lang = "TYPESCRIPT_LANGUAGE" -> "typescript"
                    [] lang = "GO_LANGUAGE" -> "go"
                    [] lang = "RUBY_LANGUAGE" -> "ruby"
                    [] lang = "KOTLIN_LANGUAGE" -> "kotlin"
                    [] OTHER -> "cpp"
       IN [ok |-> TRUE, lang |-> lang, lang_key |-> key, error |-> <<>>]

\* ------------------------------------------------------------ syntax trees
\* ts_utils.py, line_range: (start row, end row) of a node.
line_range(T, n) == <<T[n].srow, T[n].erow>>

\* The rows a node spans: range(s, e + 1).
NodeLines(T, n) == T[n].srow .. T[n].erow

\* ts_utils.py, node_text: the source text of a node (kept for the
\* identifier-like leaves, whose text is their name).
node_text(T, n) == T[n].text

\* A node and all its descendants: what a walk with stack.extend(n.children)
\* visits from root.
RECURSIVE Subtree(_, _)
Subtree(T, root) ==
  {root} \cup UNION {Subtree(T, T[root].children[i]) : i \in DOMAIN T[root].children}

\* identifiers.py, the role tests.
is_function_like(T, n, nodeset) == T[n].type \in nodeset.function
is_block_like(T, n, nodeset) == T[n].type \in nodeset.block
is_key_stmt(T, n, nodeset) == T[n].type \in nodeset.key
is_identifier(T, n, nodeset) == T[n].type \in nodeset.ident
is_member_like(T, n, nodeset) == T[n].type \in nodeset.member_like
is_assign(T, n, nodeset) == T[n].type \in nodeset.assign
is_declaration(T, n, nodeset) == T[n].type \in nodeset.declaration
is_call(T, n, nodeset) == T[n].type \in nodeset.call
is_loop(T, n, nodeset) ==
  IF "loop" \in DOMAIN nodeset THEN T[n].type \in nodeset.loop ELSE FALSE

\* nodeset.get("control", set())
ControlSet(nodeset) == IF "control" \in DOMAIN nodeset THEN nodeset.control ELSE {}

\* identifiers.py, collect_idents_in_node: every identifier of the subtree;
\* for a member-like node the identifier children are added as well.
collect_idents_in_node(T, root, nodeset) ==
  LET visited == Subtree(T, root) IN
    {node_text(T, n) : n \in {m \in visited : is_identifier(T, m, nodeset)}}
    \cup
    UNION { {node_text(T, ch) :
               ch \in {c \in Range(T[n].children) : is_identifier(T, c, nodeset)}} :
            n \in {m \in visited : ~is_identifier(T, m, nodeset)
                                   /\ is_member_like(T, m, nodeset)} }

\* identifiers.py, _collect_decl_names: the identifiers under a declaration,
\* the walk stopping at each identifier it meets.
RECURSIVE _collect_decl_names(_, _, _)
_collect_decl_names(T, n, nodeset) ==
  IF is_identifier(T, n, nodeset) THEN {node_text(T, n)}
  ELSE UNION {_collect_decl_names(T, T[n].children[i], nodeset) :
                i \in DOMAIN T[n].children}

\* The language-specific node types of a loop child that holds the
\* iteration variable (split_reads_writes, the loop branch).
LoopWriteTypes(lang_key) ==
  CASE lang_key = "python" -> {"identifier", "pattern", "tuple"}
    [] lang_key = "javascript" -> {"variable_declaration", "lexical_declaration",
                                   "identifier"}
    [] lang_key = "java" -> {"local_variable_declaration", "variable_declarator",
                             "identifier"}
    [] lang_key = "cpp" -> {"declaration", "init_declarator", "identifier"}
    [] lang_key = "php" -> {"variable_name", "name"}
    [] OTHER -> {}

\* split_reads_writes raises KeyError when it tests a role the profile does
\* not define: is_assign on every node, is_declaration on every node that is
\* no assignment, is_call on every node that is neither.
SplitRaisesKeyError(T, root, nodeset) ==
  \/ "assign" \notin DOMAIN nodeset
  \/ \E n \in Subtree(T, root) :
       /\ ~is_assign(T, n, nodeset)
       /\ \/ "declaration" \notin DOMAIN nodeset
          \/ ~is_declaration(T, n, nodeset) /\ "call" \notin DOMAIN nodeset

\* split_reads_writes, the body of the while loop for the popped node n.
SplitStep(T, lang_key, nodeset, n, acc) ==
  LET kids == T[n].children
      reads == acc.reads
      writes == acc.writes
  IN
  IF is_assign(T, n, nodeset) THEN
    IF Len(kids) >= 3
    THEN [reads |-> reads \cup collect_idents_in_node(T, Last(kids), nodeset),
          writes |-> writes \cup collect_idents_in_node(T, Head(kids), nodeset)]
    ELSE [reads |-> reads \cup collect_idents_in_node(T, n, nodeset), writes |-> writes]
  ELSE IF is_declaration(T, n, nodeset) THEN
    LET decl_names == _collect_decl_names(T, n, nodeset) IN
    [reads |-> reads \cup UNION {collect_idents_in_node(T, kids[i], nodeset) \ decl_names :
                                   i \in DOMAIN kids},
     writes |-> writes \cup decl_names]
  ELSE IF is_call(T, n, nodeset) THEN
    [reads |-> reads \cup collect_idents_in_node(T, n, nodeset), writes |-> writes]
  ELSE IF is_loop(T, n, nodeset) THEN
    LET w2 == writes \cup
              UNION {collect_idents_in_node(T, ch, nodeset) :
                       ch \in {c \in Range(kids) : T[c].type \in LoopWriteTypes(lang_key)}}
    IN [reads |-> reads \cup (collect_idents_in_node(T, n, nodeset) \ w2), writes |-> w2]
  ELSE acc

\* split_reads_writes, the while loop: the stack is popped from its end and
\* extended by the children of the popped node, so a node is visited before
\* its children and the children from the last to the first.
RECURSIVE SplitWalk(_, _, _, _, _)
RECURSIVE SplitWalkKids(_, _, _, _, _, _)
SplitWalk(T, lang_key, nodeset, n, acc) ==
  SplitWalkKids(T, lang_key, nodeset, T[n].children, Len(T[n].children),
                SplitStep(T, lang_key, nodeset, n, acc))

SplitWalkKids(T, lang_key, nodeset, kids, k, acc) ==
  IF k = 0 THEN acc
  ELSE LET after == SplitWalk(T, lang_key, nodeset, kids[k], acc) IN
       IF after = acc THEN SplitWalkKids(T, lang_key, nodeset, kids, k - 1, acc)
       ELSE SplitWalkKids(T, lang_key, nodeset, kids, k - 1, after)

\* The roles the walk assigned, without the fallback of line 111-112.
split_reads_writes_no_fallback(T, root, lang_key, nodeset) ==
  SplitWalk(T, lang_key, nodeset, root, [reads |-> {}, writes |-> {}])

\* identifiers.py, split_reads_writes (for a profile that defines the roles).
split_reads_writes(T, root, lang_key, nodeset) ==
  LET walked == SplitWalk(T, lang_key, nodeset, root, [reads |-> {}, writes |-> {}])
      raw_ids == collect_idents_in_node(T, root, nodeset)
  IN [reads |-> walked.reads \cup (raw_ids \ walked.writes), writes |-> walked.writes]

\* ------------------------------------------------------ function & target
\* The first function-like node in pre-order, whatever rows it spans.
RECURSIVE find_function_node_anywhere(_, _, _, _)
find_function_node_anywhere(T, n, nodeset, line_number) ==
  IF is_function_like(T, n, nodeset) THEN n
  ELSE LET hits == {i \in DOMAIN T[n].children :
                      find_function_node_anywhere(T, T[n].children[i], nodeset,
                                                  line_number) # 0}
       IN IF hits = {} THEN 0
          ELSE find_function_node_anywhere(T, T[n].children[SetMin(hits)], nodeset,
                                           line_number)

\* compress.py, find_function_node: pre-order, the function test first.
RECURSIVE find_function_node(_, _, _, _)
RECURSIVE FirstFunctionIn(_, _, _, _)
find_function_node(T, n, nodeset, line_number) ==
  IF /\ is_function_like(T, n, nodeset)
     /\ T[n].srow + 1 <= line_number
     /\ line_number <= T[n].erow + 1
  THEN n
  ELSE FirstFunctionIn(T, T[n].children, nodeset, line_number)

FirstFunctionIn(T, cs, nodeset, line_number) ==
  IF cs = <<>> THEN 0
  ELSE LET fn == find_function_node(T, Head(cs), nodeset, line_number)
       IN IF fn # 0 THEN fn ELSE FirstFunctionIn(T, Tail(cs), nodeset, line_number)

\* The node when it starts above the line: the span test with the node's
\* first row left out, and no descent.
find_target_node_below_first_row(T, n, line_number) ==
  IF T[n].srow < line_number - 1 /\ line_number - 1 <= T[n].erow THEN n ELSE 0

\* The located function itself, without the descent into its children.
find_target_node_shallow(T, n, line_number) ==
  IF T[n].srow <= line_number - 1 /\ line_number - 1 <= T[n].erow THEN n ELSE 0

\* compress.py, find_target_node: the first deepest node covering the line.
RECURSIVE find_target_node(_, _, _)
RECURSIVE FirstTargetIn(_, _, _)
find_target_node(T, n, line_number) ==
  IF T[n].srow <= line_number - 1 /\ line_number - 1 <= T[n].erow
  THEN LET hit == FirstTargetIn(T, T[n].children, line_number)
       IN IF hit # 0 THEN hit ELSE n
  ELSE 0

FirstTargetIn(T, cs, line_number) ==
  IF cs = <<>> THEN 0
  ELSE LET hit == find_target_node(T, Head(cs), line_number)
       IN IF hit # 0 THEN hit ELSE FirstTargetIn(T, Tail(cs), line_number)

\* An innermost function-like node whose rows contain the line.
find_enclosing_function_innermost(T, n, func_types, line_number) ==
  LET F == {m \in Subtree(T, n) : /\ T[m].type \in func_types
                                   /\ T[m].srow + 1 <= line_number
                                   /\ line_number <= T[m].erow + 1}
  IN IF F = {} THEN 0 ELSE CHOOSE m \in F : Subtree(T, m) \cap F = {m}

\* The outermost function that starts above the line: the span test with the
\* function's first row left out.
find_enclosing_function_below_header(T, n, func_types, line_number) ==
  LET F == {m \in Subtree(T, n) : /\ T[m].type \in func_types
                                   /\ T[m].srow + 1 < line_number
                                   /\ line_number <= T[m].erow + 1}
  IN IF F = {} THEN 0 ELSE CHOOSE m \in F : \A f \in F : m \in Subtree(T, f) => f = m

\* extract.py, find_enclosing_function: the span test first.
RECURSIVE find_enclosing_function(_, _, _, _)
RECURSIVE FirstEnclosingIn(_, _, _, _)
find_enclosing_function(T, n, func_types, line_number) ==
  IF ~(T[n].srow + 1 <= line_number /\ line_number <= T[n].erow + 1) THEN 0
  ELSE IF T[n].type \in func_types THEN n
  ELSE FirstEnclosingIn(T, T[n].children, func_types, line_number)

FirstEnclosingIn(T, cs, func_types, line_number) ==
  IF cs = <<>> THEN 0
  ELSE LET hit == find_enclosing_function(T, Head(cs), func_types, line_number)
       IN IF hit # 0 THEN hit ELSE FirstEnclosingIn(T, Tail(cs), func_types, line_number)

\* extract.py, find_smallest_node_covering_line
RECURSIVE find_smallest_node_covering_line(_, _, _)
RECURSIVE FirstSmallestIn(_, _, _)
find_smallest_node_covering_line(T, n, line) ==
  IF ~(T[n].srow + 1 <= line /\ line <= T[n].erow + 1) THEN 0
  ELSE LET hit == FirstSmallestIn(T, T[n].children, line)
       IN IF hit # 0 THEN hit ELSE n

FirstSmallestIn(T, cs, line) ==
  IF cs = <<>> THEN 0
  ELSE LET hit == find_smallest_node_covering_line(T, Head(cs), line)
       IN IF hit # 0 THEN hit ELSE FirstSmallestIn(T, Tail(cs), line)

\* The climb that stops at the node itself.
climb_to_multiline_self(T, node) ==
  IF node # 0 /\ T[node].erow > T[node].srow THEN node ELSE 0

\* extract.py, climb_to_multiline: the node or its nearest ancestor that
\* spans more than one row; 0 when there is none.
RECURSIVE climb_to_multiline(_, _)
climb_to_multiline(T, node) ==
  IF node = 0 THEN 0
  ELSE IF T[node].erow > T[node].srow THEN node
  ELSE climb_to_multiline(T, T[node].parent)

\* ------------------------------------------------------------ the slicer
\* compress.py, the ancestors of the target node (itself included, up to the
\* root) that are block-like or function-like, innermost first.
RECURSIVE AncestorRegions(_, _, _)
AncestorRegions(T, p, nodeset) ==
  IF p = 0 THEN <<>>
  ELSE (IF is_block_like(T, p, nodeset) \/ is_function_like(T, p, nodeset)
        THEN <<p>> ELSE <<>>)
       \o AncestorRegions(T, T[p].parent, nodeset)

\* compress.py, promote_control_ancestors: the rows it adds for statement n,
\* from parent q on.
RECURSIVE PromoteFrom(_, _, _, _)
PromoteFrom(T, q, nodeset, seen_first_block) ==
  IF q = 0 \/ is_function_like(T, q, nodeset) THEN {}
  ELSE
    LET own == IF T[q].type \in ControlSet(nodeset) THEN NodeLines(T, q) ELSE {}
        first == is_block_like(T, q, nodeset) /\ ~seen_first_block
        pc_ == T[q].parent
        above == IF first /\ pc_ # 0 /\ T[pc_].type \in ControlSet(nodeset)
                 THEN NodeLines(T, pc_) ELSE {}
    IN own \cup above
       \cup PromoteFrom(T, T[q].parent, nodeset, seen_first_block \/ first)

promote_control_ancestors(T, n, nodeset) == PromoteFrom(T, T[n].parent, nodeset, FALSE)

\* compress.py, mark_if_references_ids: the key statements of the region
\* that hold an identifier of idset.  Every update the loop makes is a set
\* union, so the visit order does not show in its results.
MatchedStatements(T, root, idset, nodeset) ==
  {n \in Subtree(T, root) :
     /\ is_key_stmt(T, n, nodeset)
     /\ idset \cap collect_idents_in_node(T, n, nodeset) # {}}

mark_if_references_ids(T, root, idset, lang_key, nodeset, with_headers) ==
  LET hit == MatchedStatements(T, root, idset, nodeset) IN
  [ matched_any |-> hit # {},
    raised |-> \E n \in hit : SplitRaisesKeyError(T, n, nodeset),
    lines |-> UNION {NodeLines(T, n) \cup
                       (IF with_headers THEN promote_control_ancestors(T, n, nodeset)
                        ELSE {}) : n \in hit},
    stmts |-> hit,
    discovered_reads |->
      IF \E n \in hit : SplitRaisesKeyError(T, n, nodeset) THEN {}
      ELSE UNION {split_reads_writes(T, n, lang_key, nodeset).reads : n \in hit},
    discovered_writes |->
      IF \E n \in hit : SplitRaisesKeyError(T, n, nodeset) THEN {}
      ELSE UNION {split_reads_writes(T, n, lang_key, nodeset).writes : n \in hit} ]

\* ---------------------------------------------------------------- comments
\* comments.py, compute_comment_lines, the scan of one line for block
\* comments from column j on: [in_block, end_tok, hit], hit telling whether
\* the line was added to comment_lines.
RECURSIVE ScanBlockComments(_, _, _, _, _, _)
ScanBlockComments(s, j, in_block, end_tok, hit, block_delims) ==
  IF ~in_block THEN
    LET opens == {p \in DOMAIN block_delims : Find(s, block_delims[p][1], j) # -1}
        first == CHOOSE p \in opens :
                   \A r \in opens :
                     \/ Find(s, block_delims[p][1], j) < Find(s, block_delims[r][1], j)
                     \/ Find(s, block_delims[p][1], j) = Find(s, block_delims[r][1], j)
                        /\ p <= r
    IN
    IF opens = {} THEN [in_block |-> FALSE, end_tok |-> end_tok, hit |-> hit]
    ELSE
      LET idx_open == Find(s, block_delims[first][1], j)
          tok == block_delims[first][2]
          idx_close == Find(s, tok, idx_open + 1)
      IN IF idx_close # -1
         THEN ScanBlockComments(s, idx_close + 1, FALSE, tok, TRUE, block_delims)
         ELSE [in_block |-> TRUE, end_tok |-> tok, hit |-> TRUE]
  ELSE
    LET idx_close == Find(s, end_tok, j) IN
    IF idx_close # -1
    THEN ScanBlockComments(s, idx_close + 1, FALSE, end_tok, TRUE, block_delims)
    ELSE [in_block |-> TRUE, end_tok |-> end_tok, hit |-> TRUE]

\* The rows (0-based) the block-comment pass adds, lines i.. being scanned
\* with the state carried from the lines before.
RECURSIVE BlockCommentLines(_, _, _, _, _)
BlockCommentLines(lines, i, in_block, end_tok, block_delims) ==
  IF i > Len(lines) THEN {}
  ELSE LET r == ScanBlockComments(lines[i], 0, in_block, end_tok, FALSE, block_delims)
       IN (IF r.hit THEN {i - 1} ELSE {})
          \cup BlockCommentLines(lines, i + 1, r.in_block, r.end_tok, block_delims)

\* str.startswith(prefixes) for a tuple of one-token prefixes.
StartsWithAny(line, prefixes) == line # <<>> /\ Head(line) \in Range(prefixes)

\* comments.py, compute_comment_lines: 0-based indices of comment-only lines.
compute_comment_lines(lang_key, lines) ==
  LET style == CommentStyleOf(lang_key) IN
    (IF style.block # <<>> THEN BlockCommentLines(lines, 1, FALSE, "", style.block) ELSE {})
    \cup
    (IF style.line # <<>>
     THEN {i - 1 : i \in {k \in DOMAIN lines : StartsWithAny(LStrip(lines[k]), style.line)}}
     ELSE {})

\* comments.py, first_inline_comment_index: -1 stands for None.
first_inline_comment_index(line, lang_key) ==
  LET style == CommentStyleOf(lang_key)
      tokens == Range(style.line) \cup {style.block[p][1] : p \in DOMAIN style.block}
      found == {Find(line, tok, 0) : tok \in tokens}
      good == {k \in found : k # -1 /\ NonBlank(SubSeq(line, 1, k))}
  IN IF good = {} THEN -1 ELSE SetMin(good)

\* comments.py, mask_code_keep_comment: <<>> stands for None (a masked line
\* is never empty).
mask_code_keep_comment(line, lang_key) ==
  LET idx == first_inline_comment_index(line, lang_key) IN
  IF idx = -1 THEN <<>>
  ELSE SubSeq(line, 1, LeadingWs(line)) \o <<Ellipsis, " ">>
       \o RStrip(SubSeq(line, idx + 1, Len(line)))

\* ------------------------------------------------------------------ header
\* header.py, collect_multiline_header: [header, cursor].
RECURSIVE HeaderScan(_, _, _, _)
HeaderScan(lines, cursor, f_end, header) ==
  IF cursor > f_end THEN [header |-> header, cursor |-> cursor, found |-> FALSE]
  ELSE LET line == lines[cursor + 1] IN
       IF "{" \in Range(line)
       THEN [header |-> Append(header, line), cursor |-> cursor + 1, found |-> TRUE]
       ELSE HeaderScan(lines, cursor + 1, f_end, Append(header, line))

\* A header that is the first line of the function in every language.
collect_multiline_header_first_line(ls, key, fs, fe) ==
  [header |-> <<ls[fs + 1]>>, cursor |-> fs + 1]

collect_multiline_header(ls, key, fs, fe) ==
  IF LANG_NODESETS[key].closing_is_brace
  THEN LET h == HeaderScan(ls, fs, fe, <<>>) IN
       IF ~h.found /\ h.cursor <= fe /\ Strip(ls[h.cursor + 1]) = <<"{">>
       THEN [header |-> Append(h.header, ls[h.cursor + 1]), cursor |-> h.cursor + 1]
       ELSE [header |-> h.header, cursor |-> h.cursor]
  ELSE [header |-> <<ls[fs + 1]>>, cursor |-> fs + 1]

\* ------------------------------------------------------------------ indent
\* indent.py, leading_spaces
RECURSIVE leading_spaces(_)
leading_spaces(s) ==
  IF s = <<>> \/ Head(s) # " " THEN 0 ELSE 1 + leading_spaces(Tail(s))

\* indent.py, dedent_minimum
dedent_minimum(ls) ==
  LET non_empty == {i \in DOMAIN ls : NonBlank(ls[i])}
      min_lead == SetMin({leading_spaces(ls[i]) : i \in non_empty})
  IN IF non_empty = {} THEN ls
     ELSE IF min_lead = 0 THEN ls
     ELSE [i \in DOMAIN ls |->
             IF leading_spaces(ls[i]) >= min_lead
             THEN SubSeq(ls[i], min_lead + 1, Len(ls[i])) ELSE ls[i]]

\* ------------------------------------------------------------- the output
\* sorted(S) for a set of integers.
RECURSIVE Sorted(_)
Sorted(S) == IF S = {} THEN <<>> ELSE LET m == SetMin(S) IN <<m>> \o Sorted(S \ {m})

\* compress.py, the merge of relevant_lines into contiguous blocks: the loop
\* over sorted_lines[1:], run (start, prev) being open.
RECURSIVE MergeRuns(_, _, _)
MergeRuns(rest, start, prev) ==
  IF rest = <<>> THEN << <<start, prev>> >>
  ELSE IF Head(rest) = prev + 1 THEN MergeRuns(Tail(rest), start, Head(rest))
  ELSE << <<start, prev>> >> \o MergeRuns(Tail(rest), Head(rest), Head(rest))

\* A merge that opens a block for every relevant row.
merge_blocks_rowwise(relevant) ==
  LET sorted_lines == Sorted(relevant)
  IN [i \in DOMAIN sorted_lines |-> <<sorted_lines[i], sorted_lines[i]>>]

merge_blocks(relevant) ==
  IF relevant = {} THEN <<>>
  ELSE LET sorted_lines == Sorted(relevant)
       IN MergeRuns(Tail(sorted_lines), Head(sorted_lines), Head(sorted_lines))

\* lines[lo:hi] (0-based, clipped as a Python slice is)
Slice(lines, lo, hi) == SubSeq(lines, Max(lo, 0) + 1, Min(hi, Len(lines)))

\* compress.py, comment_omitted
comment_omitted(line_comment) == <<line_comment, " ... omitted ...">>

\* The masked inline comments of rows lo..hi-1, in order.
RECURSIVE MaskedLines(_, _, _, _)
MaskedLines(lines, lo, hi, lang_key) ==
  IF lo >= hi THEN <<>>
  ELSE LET masked == mask_code_keep_comment(lines[lo + 1], lang_key)
       IN (IF masked # <<>> THEN <<masked>> ELSE <<>>)
          \o MaskedLines(lines, lo + 1, hi, lang_key)

\* compress.py, emit_skipped_region_with_inline_comments: what it appends.
emit_skipped_region_with_inline_comments(lines, lo, hi, lang_key, line_comment, keep_inline) ==
  IF lo >= hi THEN <<>>
  ELSE IF ~(\E i \in DOMAIN Slice(lines, lo, hi) : NonBlank(Slice(lines, lo, hi)[i]))
  THEN <<>>
  ELSE <<comment_omitted(line_comment)>>
       \o (IF keep_inline THEN MaskedLines(lines, lo, hi, lang_key) ELSE <<>>)

\* The rows of a block that are emitted: not blank, or comment-only.
RECURSIVE BlockLines(_, _, _, _)
BlockLines(lines, i, end, comment_only) ==
  IF i > end THEN <<>>
  ELSE (IF NonBlank(lines[i + 1]) \/ i \in comment_only THEN <<lines[i + 1]>> ELSE <<>>)
       \o BlockLines(lines, i + 1, end, comment_only)

\* compress.py, the loop over blocks: [out, cursor] after the blocks bs.
RECURSIVE EmitBlocks(_, _, _, _, _, _, _, _)
EmitBlocks(bs, cur, acc, lines, comment_only, lang_key, line_comment, keep_inline) ==
  IF bs = <<>> THEN [out |-> acc, cursor |-> cur]
  ELSE
    LET start0 == Head(bs)[1]
        end == Head(bs)[2]
        start == IF start0 < cur THEN Max(start0, cur) ELSE start0
    IN IF start0 < cur /\ start > end
       THEN EmitBlocks(Tail(bs), cur, acc, lines, comment_only, lang_key, line_comment,
                       keep_inline)
       ELSE EmitBlocks(Tail(bs), end + 1,
                       acc \o emit_skipped_region_with_inline_comments(
                                lines, cur, start, lang_key, line_comment, keep_inline)
                           \o BlockLines(lines, start, end, comment_only),
                       lines, comment_only, lang_key, line_comment, keep_inline)

\* ------------------------------------------------------------ the inputs
\* The programs the engine is run on: the text of each and the tree the
\* tree-sitter grammar named by `grammar' returns for it.
Ind2 == <<" ", " ">>
Ind4 == <<" ", " ", " ", " ">>
Ind8 == Ind4 \o Ind4

\* tests/test_cpp_compress.py, CPP_SRC
ScenarioA_lines ==
  << <<>>,
     <<"//", " File header">>,
     <<>>,
     <<"//", " lead comment (outside function)">>,
     <<"int add(int a, int b)">>,
     <<"{">>,
     Ind4 \o <<"//", " entry">>,
     Ind4 \o <<"int s = a + b;", " ", "//", " inline-keep-me">>,
     <<>>,
     Ind4 \o <<"int dummy = 0;", " ", "//", " inline-omit-me">>,
     <<>>,
     Ind4 \o <<"for (int i = 0; i < b; ++i)", " ", "{">>,
     Ind8 \o <<"s = s + i;">>,
     Ind4 \o <<"}">>,
     <<>>,
     Ind4 \o <<"/*", " block comment header ", "*/">>,
     Ind4 \o <<"if (s > 100)", " ", "{", " ", "/*", " guard ", "*/">>,
     Ind8 \o <<"s -= 42;">>,
     Ind4 \o <<"}">>,
     Ind4 \o <<"//", " tail">>,
     Ind4 \o <<"return s;", " ", "//", " tail-inline">>,
     <<"}">> >>

\* A Python class with three methods that assign the same name.
PyClass_lines ==
  << <<"class C:">>,
     Ind4 \o <<"def a(self):">>,
     Ind8 \o <<"x = 1">>,
     Ind4 \o <<"def b(self):">>,
     Ind8 \o <<"#", " note">>,
     Ind8 \o <<"x = 2">>,
     Ind8 \o <<"y = x">>,
     Ind4 \o <<"def c(self):">>,
     Ind8 \o <<"x = 3">> >>

\* A Python function with a function defined inside a loop.
PyNested_lines ==
  << <<"def f(a, c):">>,
     Ind4 \o <<"while c:">>,
     Ind8 \o <<"def g(y):">>,
     Ind8 \o Ind4 \o <<"return y + a">>,
     Ind4 \o <<"x = a">> >>

\* A Python function with a comment in the else branch of an if statement.
PyElse_lines ==
  << <<"def f(a):">>,
     Ind4 \o <<"if a:">>,
     Ind8 \o <<"b = 1">>,
     Ind4 \o <<"else:">>,
     Ind8 \o <<"#", " note">>,
     Ind8 \o <<"c = 2">>,
     Ind4 \o <<"return a">> >>

\* A Python function whose first statement holds the comment token inside a
\* string literal and ends with a comment.
Quote == "\""
PyStr_lines ==
  << <<"def f(a):">>,
     Ind4 \o <<"u = ", Quote, "a", "#", "b", Quote, " ", " ", "#", " note">>,
     Ind4 \o <<"return a">> >>

\* A Java class: a field initialised by an expression lambda and a method.
JavaClass_lines ==
  << <<"class A", " ", "{">>,
     Ind2 \o <<"F g = ", "y -> y", ";">>,
     Ind2 \o <<"int f(int x)", " ", "{">>,
     Ind4 \o <<"//", " c">>,
     Ind4 \o <<"x = x + 1;">>,
     Ind4 \o <<"return x;">>,
     Ind2 \o <<"}">>,
     <<"}">> >>

\* A Go file with one function.
GoFunc_lines ==
  << <<"package main">>,
     <<>>,
     <<"func Add(a int) int", " ", "{">>,
     <<"\t", "return a">>,
     <<"}">> >>

ScenarioA_tree ==
  << [type |-> "translation_unit", srow |-> 1, erow |-> 22, parent |-> 0, children |-> <<2, 3, 4>>, text |-> ""],  \* 1
     [type |-> "comment", srow |-> 1, erow |-> 1, parent |-> 1, children |-> <<>>, text |-> ""],  \* 2
     [type |-> "comment", srow |-> 3, erow |-> 3, parent |-> 1, children |-> <<>>, text |-> ""],  \* 3
     [type |-> "function_definition", srow |-> 4, erow |-> 21, parent |-> 1, children |-> <<5, 6, 18>>, text |-> ""],  \* 4
     [type |-> "primitive_type", srow |-> 4, erow |-> 4, parent |-> 4, children |-> <<>>, text |-> ""],  \* 5
     [type |-> "function_declarator", srow |-> 4, erow |-> 4, parent |-> 4, children |-> <<7, 8>>, text |-> ""],  \* 6
     [type |-> "identifier", srow |-> 4, erow |-> 4, parent |-> 6, children |-> <<>>, text |-> "add"],  \* 7
     [type |-> "parameter_list", srow |-> 4, erow |-> 4, parent |-> 6, children |-> <<9, 10, 13, 14, 17>>, text |-> ""],  \* 8
     [type |-> "(", srow |-> 4, erow |-> 4, parent |-> 8, children |-> <<>>, text |-> ""],  \* 9
     [type |-> "parameter_declaration", srow |-> 4, erow |-> 4, parent |-> 8, children |-> <<11, 12>>, text |-> ""],  \* 10
     [type |-> "primitive_type", srow |-> 4, erow |-> 4, parent |-> 10, children |-> <<>>, text |-> ""],  \* 11
     [type |-> "identifier", srow |-> 4, erow |-> 4, parent |-> 10, children |-> <<>>, text |-> "a"],  \* 12
     [type |-> ",", srow |-> 4, erow |-> 4, parent |-> 8, children |-> <<>>, text |-> ""],  \* 13
     [type |-> "parameter_declaration", srow |-> 4, erow |-> 4, parent |-> 8, children |-> <<15, 16>>, text |-> ""],  \* 14
     [type |-> "primitive_type", srow |-> 4, erow |-> 4, parent |-> 14, children |-> <<>>, text |-> ""],  \* 15
     [type |-> "identifier", srow |-> 4, erow |-> 4, parent |-> 14, children |-> <<>>, text |-> "b"],  \* 16
     [type |-> ")", srow |-> 4, erow |-> 4, parent |-> 8, children |-> <<>>, text |-> ""],  \* 17
     [type |-> "compound_statement", srow |-> 5, erow |-> 21, parent |-> 4, children |-> <<19, 20, 21, 31, 32, 39, 40, 71, 72, 91, 92, 96, 97>>, text |-> ""],  \* 18
     [type |-> "{", srow |-> 5, erow |-> 5, parent |-> 18, children |-> <<>>, text |-> ""],  \* 19
     [type |-> "comment", srow |-> 6, erow |-> 6, parent |-> 18, children |-> <<>>, text |-> ""],  \* 20
     [type |-> "declaration", srow |-> 7, erow |-> 7, parent |-> 18, children |-> <<22, 23, 30>>, text |-> ""],  \* 21
     [type |-> "primitive_type", srow |-> 7, erow |-> 7, parent |-> 21, children |-> <<>>, text |-> ""],  \* 22
     [type |-> "init_declarator", srow |-> 7, erow |-> 7, parent |-> 21, children |-> <<24, 25, 26>>, text |-> ""],  \* 23
     [type |-> "identifier", srow |-> 7, erow |-> 7, parent |-> 23, children |-> <<>>, text |-> "s"],  \* 24
     [type |-> "=", srow |-> 7, erow |-> 7, parent |-> 23, children |-> <<>>, text |-> ""],  \* 25
     [type |-> "binary_expression", srow |-> 7, erow |-> 7, parent |-> 23, children |-> <<27, 28, 29>>, text |-> ""],  \* 26
     [type |-> "identifier", srow |-> 7, erow |-> 7, parent |-> 26, children |-> <<>>, text |-> "a"],  \* 27
     [type |-> "+", srow |-> 7, erow |-> 7, parent |-> 26, children |-> <<>>, text |-> ""],  \* 28
     [type |-> "identifier", srow |-> 7, erow |-> 7, parent |-> 26, children |-> <<>>, text |-> "b"],  \* 29
     [type |-> ";", srow |-> 7, erow |-> 7, parent |-> 21, children |-> <<>>, text |-> ""],  \* 30
     [type |-> "comment", srow |-> 7, erow |-> 7, parent |-> 18, children |-> <<>>, text |-> ""],  \* 31
     [type |-> "declaration", srow |-> 9, erow |-> 9, parent |-> 18, children |-> <<33, 34, 38>>, text |-> ""],  \* 32
     [type |-> "primitive_type", srow |-> 9, erow |-> 9, parent |-> 32, children |-> <<>>, text |-> ""],  \* 33
     [type |-> "init_declarator", srow |-> 9, erow |-> 9, parent |-> 32, children |-> <<35, 36, 37>>, text |-> ""],  \* 34
     [type |-> "identifier", srow |-> 9, erow |-> 9, parent |-> 34, children |-> <<>>, text |-> "dummy"],  \* 35
     [type |-> "=", srow |-> 9, erow |-> 9, parent |-> 34, children |-> <<>>, text |-> ""],  \* 36
     [type |-> "number_literal", srow |-> 9, erow |-> 9, parent |-> 34, children |-> <<>>, text |-> ""],  \* 37
     [type |-> ";", srow |-> 9, erow |-> 9, parent |-> 32, children |-> <<>>, text |-> ""],  \* 38
     [type |-> "comment", srow |-> 9, erow |-> 9, parent |-> 18, children |-> <<>>, text |-> ""],  \* 39
     [type |-> "for_statement", srow |-> 11, erow |-> 13, parent |-> 18, children |-> <<41, 42, 43, 50, 54, 55, 58, 59>>, text |-> ""],  \* 40
     [type |-> "for", srow |-> 11, erow |-> 11, parent |-> 40, children |-> <<>>, text |-> ""],  \* 41
     [type |-> "(", srow |-> 11, erow |-> 11, parent |-> 40, children |-> <<>>, text |-> ""],  \* 42
     [type |-> "declaration", srow |-> 11, erow |-> 11, parent |-> 40, children |-> <<44, 45, 49>>, text |-> ""],  \* 43
     [type |-> "primitive_type", srow |-> 11, erow |-> 11, parent |-> 43, children |-> <<>>, text |-> ""],  \* 44
     [type |-> "init_declarator", srow |-> 11, erow |-> 11, parent |-> 43, children |-> <<46, 47, 48>>, text |-> ""],  \* 45
     [type |-> "identifier", srow |-> 11, erow |-> 11, parent |-> 45, children |-> <<>>, text |-> "i"],  \* 46
     [type |-> "=", srow |-> 11, erow |-> 11, parent |-> 45, children |-> <<>>, text |-> ""],  \* 47
     [type |-> "number_literal", srow |-> 11, erow |-> 11, parent |-> 45, children |-> <<>>, text |-> ""],  \* 48
     [type |-> ";", srow |-> 11, erow |-> 11, parent |-> 43, children |-> <<>>, text |-> ""],  \* 49
     [type |-> "binary_expression", srow |-> 11, erow |-> 11, parent |-> 40, children |-> <<51, 52, 53>>, text |-> ""],  \* 50
     [type |-> "identifier", srow |-> 11, erow |-> 11, parent |-> 50, children |-> <<>>, text |-> "i"],  \* 51
     [type |-> "<", srow |-> 11, erow |-> 11, parent |-> 50, children |-> <<>>, text |-> ""],  \* 52
     [type |-> "identifier", srow |-> 11, erow |-> 11, parent |-> 50, children |-> <<>>, text |-> "b"],  \* 53
     [type |-> ";", srow |-> 11, erow |-> 11, parent |-> 40, children |-> <<>>, text |-> ""],  \* 54
     [type |-> "update_expression", srow |-> 11, erow |-> 11, parent |-> 40, children |-> <<56, 57>>, text |-> ""],  \* 55
     [type |-> "++", srow |-> 11, erow |-> 11, parent |-> 55, children |-> <<>>, text |-> ""],  \* 56
     [type |-> "identifier", srow |-> 11, erow |-> 11, parent |-> 55, children |-> <<>>, text |-> "i"],  \* 57
     [type |-> ")", srow |-> 11, erow |-> 11, parent |-> 40, children |-> <<>>, text |-> ""],  \* 58
     [type |-> "compound_statement", srow |-> 11, erow |-> 13, parent |-> 40, children |-> <<60, 61, 70>>, text |-> ""],  \* 59
     [type |-> "{", srow |-> 11, erow |-> 11, parent |-> 59, children |-> <<>>, text |-> ""],  \* 60
     [type |-> "expression_statement", srow |-> 12, erow |-> 12, parent |-> 59, children |-> <<62, 69>>, text |-> ""],  \* 61
     [type |-> "assignment_expression", srow |-> 12, erow |-> 12, parent |-> 61, children |-> <<63, 64, 65>>, text |-> ""],  \* 62
     [type |-> "identifier", srow |-> 12, erow |-> 12, parent |-> 62, children |-> <<>>, text |-> "s"],  \* 63
     [type |-> "=", srow |-> 12, erow |-> 12, parent |-> 62, children |-> <<>>, text |-> ""],  \* 64
     [type |-> "binary_expression", srow |-> 12, erow |-> 12, parent |-> 62, children |-> <<66, 67, 68>>, text |-> ""],  \* 65
     [type |-> "identifier", srow |-> 12, erow |-> 12, parent |-> 65, children |-> <<>>, text |-> "s"],  \* 66
     [type |-> "+", srow |-> 12, erow |-> 12, parent |-> 65, children |-> <<>>, text |-> ""],  \* 67
     [type |-> "identifier", srow |-> 12, erow |-> 12, parent |-> 65, children |-> <<>>, text |-> "i"],  \* 68
     [type |-> ";", srow |-> 12, erow |-> 12, parent |-> 61, children |-> <<>>, text |-> ""],  \* 69
     [type |-> "}", srow |-> 13, erow |-> 13, parent |-> 59, children |-> <<>>, text |-> ""],  \* 70
     [type |-> "comment", srow |-> 15, erow |-> 15, parent |-> 18, children |-> <<>>, text |-> ""],  \* 71
     [type |-> "if_statement", srow |-> 16, erow |-> 18, parent |-> 18, children |-> <<73, 74, 81>>, text |-> ""],  \* 72
     [type |-> "if", srow |-> 16, erow |-> 16, parent |-> 72, children |-> <<>>, text |-> ""],  \* 73
     [type |-> "condition_clause", srow |-> 16, erow |-> 16, parent |-> 72, children |-> <<75, 76, 80>>, text |-> ""],  \* 74
     [type |-> "(", srow |-> 16, erow |-> 16, parent |-> 74, children |-> <<>>, text |-> ""],  \* 75
     [type |-> "binary_expression", srow |-> 16, erow |-> 16, parent |-> 74, children |-> <<77, 78, 79>>, text |-> ""],  \* 76
     [type |-> "identifier", srow |-> 16, erow |-> 16, parent |-> 76, children |-> <<>>, text |-> "s"],  \* 77
     [type |-> ">", srow |-> 16, erow |-> 16, parent |-> 76, children |-> <<>>, text |-> ""],  \* 78
     [type |-> "number_literal", srow |-> 16, erow |-> 16, parent |-> 76, children |-> <<>>, text |-> ""],  \* 79
     [type |-> ")", srow |-> 16, erow |-> 16, parent |-> 74, children |-> <<>>, text |-> ""],  \* 80
     [type |-> "compound_statement", srow |-> 16, erow |-> 18, parent |-> 72, children |-> <<82, 83, 84, 90>>, text |-> ""],  \* 81
     [type |-> "{", srow |-> 16, erow |-> 16, parent |-> 81, children |-> <<>>, text |-> ""],  \* 82
     [type |-> "comment", srow |-> 16, erow |-> 16, parent |-> 81, children |-> <<>>, text |-> ""],  \* 83
     [type |-> "expression_statement", srow |-> 17, erow |-> 17, parent |-> 81, children |-> <<85, 89>>, text |-> ""],  \* 84
     [type |-> "assignment_expression", srow |-> 17, erow |-> 17, parent |-> 84, children |-> <<86, 87, 88>>, text |-> ""],  \* 85
     [type |-> "identifier", srow |-> 17, erow |-> 17, parent |-> 85, children |-> <<>>, text |-> "s"],  \* 86
     [type |-> "-=", srow |-> 17, erow |-> 17, parent |-> 85, children |-> <<>>, text |-> ""],  \* 87
     [type |-> "number_literal", srow |-> 17, erow |-> 17, parent |-> 85, children |-> <<>>, text |-> ""],  \* 88
     [type |-> ";", srow |-> 17, erow |-> 17, parent |-> 84, children |-> <<>>, text |-> ""],  \* 89
     [type |-> "}", srow |-> 18, erow |-> 18, parent |-> 81, children |-> <<>>, text |-> ""],  \* 90
     [type |-> "comment", srow |-> 19, erow |-> 19, parent |-> 18, children |-> <<>>, text |-> ""],  \* 91
     [type |-> "return_statement", srow |-> 20, erow |-> 20, parent |-> 18, children |-> <<93, 94, 95>>, text |-> ""],  \* 92
     [type |-> "return", srow |-> 20, erow |-> 20, parent |-> 92, children |-> <<>>, text |-> ""],  \* 93
     [type |-> "identifier", srow |-> 20, erow |-> 20, parent |-> 92, children |-> <<>>, text |-> "s"],  \* 94
     [type |-> ";", srow |-> 20, erow |-> 20, parent |-> 92, children |-> <<>>, text |-> ""],  \* 95
     [type |-> "comment", srow |-> 20, erow |-> 20, parent |-> 18, children |-> <<>>, text |-> ""],  \* 96
     [type |-> "}", srow |-> 21, erow |-> 21, parent |-> 18, children |-> <<>>, text |-> ""] >>  \* 97

PyNested_tree ==
  << [type |-> "module", srow |-> 0, erow |-> 5, parent |-> 0, children |-> <<2>>, text |-> ""],  \* 1
     [type |-> "function_definition", srow |-> 0, erow |-> 4, parent |-> 1, children |-> <<3, 4, 5, 11, 12>>, text |-> ""],  \* 2
     [type |-> "def", srow |-> 0, erow |-> 0, parent |-> 2, children |-> <<>>, text |-> ""],  \* 3
     [type |-> "identifier", srow |-> 0, erow |-> 0, parent |-> 2, children |-> <<>>, text |-> "f"],  \* 4
     [type |-> "parameters", srow |-> 0, erow |-> 0, parent |-> 2, children |-> <<6, 7, 8, 9, 10>>, text |-> ""],  \* 5
     [type |-> "(", srow |-> 0, erow |-> 0, parent |-> 5, children |-> <<>>, text |-> ""],  \* 6
     [type |-> "identifier", srow |-> 0, erow |-> 0, parent |-> 5, children |-> <<>>, text |-> "a"],  \* 7
     [type |-> ",", srow |-> 0, erow |-> 0, parent |-> 5, children |-> <<>>, text |-> ""],  \* 8
     [type |-> "identifier", srow |-> 0, erow |-> 0, parent |-> 5, children |-> <<>>, text |-> "c"],  \* 9
     [type |-> ")", srow |-> 0, erow |-> 0, parent |-> 5, children |-> <<>>, text |-> ""],  \* 10
     [type |-> ":", srow |-> 0, erow |-> 0, parent |-> 2, children |-> <<>>, text |-> ""],  \* 11
     [type |-> "block", srow |-> 1, erow |-> 4, parent |-> 2, children |-> <<13, 33>>, text |-> ""],  \* 12
     [type |-> "while_statement", srow |-> 1, erow |-> 3, parent |-> 12, children |-> <<14, 15, 16, 17>>, text |-> ""],  \* 13
     [type |-> "while", srow |-> 1, erow |-> 1, parent |-> 13, children |-> <<>>, text |-> ""],  \* 14
     [type |-> "identifier", srow |-> 1, erow |-> 1, parent |-> 13, children |-> <<>>, text |-> "c"],  \* 15
     [type |-> ":", srow |-> 1, erow |-> 1, parent |-> 13, children |-> <<>>, text |-> ""],  \* 16
     [type |-> "block", srow |-> 2, erow |-> 3, parent |-> 13, children |-> <<18>>, text |-> ""],  \* 17
     [type |-> "function_definition", srow |-> 2, erow |-> 3, parent |-> 17, children |-> <<19, 20, 21, 25, 26>>, text |-> ""],  \* 18
     [type |-> "def", srow |-> 2, erow |-> 2, parent |-> 18, children |-> <<>>, text |-> ""],  \* 19
     [type |-> "identifier", srow |-> 2, erow |-> 2, parent |-> 18, children |-> <<>>, text |-> "g"],  \* 20
     [type |-> "parameters", srow |-> 2, erow |-> 2, parent |-> 18, children |-> <<22, 23, 24>>, text |-> ""],  \* 21
     [type |-> "(", srow |-> 2, erow |-> 2, parent |-> 21, children |-> <<>>, text |-> ""],  \* 22
     [type |-> "identifier", srow |-> 2, erow |-> 2, parent |-> 21, children |-> <<>>, text |-> "y"],  \* 23
     [type |-> ")", srow |-> 2, erow |-> 2, parent |-> 21, children |-> <<>>, text |-> ""],  \* 24
     [type |-> ":", srow |-> 2, erow |-> 2, parent |-> 18, children |-> <<>>, text |-> ""],  \* 25
     [type |-> "block", srow |-> 3, erow |-> 3, parent |-> 18, children |-> <<27>>, text |-> ""],  \* 26
     [type |-> "return_statement", srow |-> 3, erow |-> 3, parent |-> 26, children |-> <<28, 29>>, text |-> ""],  \* 27
     [type |-> "return", srow |-> 3, erow |-> 3, parent |-> 27, children |-> <<>>, text |-> ""],  \* 28
     [type |-> "binary_operator", srow |-> 3, erow |-> 3, parent |-> 27, children |-> <<30, 31, 32>>, text |-> ""],  \* 29
     [type |-> "identifier", srow |-> 3, erow |-> 3, parent |-> 29, children |-> <<>>, text |-> "y"],  \* 30
     [type |-> "+", srow |-> 3, erow |-> 3, parent |-> 29, children |-> <<>>, text |-> ""],  \* 31
     [type |-> "identifier", srow |-> 3, erow |-> 3, parent |-> 29, children |-> <<>>, text |-> "a"],  \* 32
     [type |-> "expression_statement", srow |-> 4, erow |-> 4, parent |-> 12, children |-> <<34>>, text |-> ""],  \* 33
     [type |-> "assignment", srow |-> 4, erow |-> 4, parent |-> 33, children |-> <<35, 36, 37>>, text |-> ""],  \* 34
     [type |-> "identifier", srow |-> 4, erow |-> 4, parent |-> 34, children |-> <<>>, text |-> "x"],  \* 35
     [type |-> "=", srow |-> 4, erow |-> 4, parent |-> 34, children |-> <<>>, text |-> ""],  \* 36
     [type |-> "identifier", srow |-> 4, erow |-> 4, parent |-> 34, children |-> <<>>, text |-> "a"] >>  \* 37

PyElse_tree ==
  << [type |-> "module", srow |-> 0, erow |-> 7, parent |-> 0, children |-> <<2>>, text |-> ""],  \* 1
     [type |-> "function_definition", srow |-> 0, erow |-> 6, parent |-> 1, children |-> <<3, 4, 5, 9, 10>>, text |-> ""],  \* 2
     [type |-> "def", srow |-> 0, erow |-> 0, parent |-> 2, children |-> <<>>, text |-> ""],  \* 3
     [type |-> "identifier", srow |-> 0, erow |-> 0, parent |-> 2, children |-> <<>>, text |-> "f"],  \* 4
     [type |-> "parameters", srow |-> 0, erow |-> 0, parent |-> 2, children |-> <<6, 7, 8>>, text |-> ""],  \* 5
     [type |-> "(", srow |-> 0, erow |-> 0, parent |-> 5, children |-> <<>>, text |-> ""],  \* 6
     [type |-> "identifier", srow |-> 0, erow |-> 0, parent |-> 5, children |-> <<>>, text |-> "a"],  \* 7
     [type |-> ")", srow |-> 0, erow |-> 0, parent |-> 5, children |-> <<>>, text |-> ""],  \* 8
     [type |-> ":", srow |-> 0, erow |-> 0, parent |-> 2, children |-> <<>>, text |-> ""],  \* 9
     [type |-> "block", srow |-> 1, erow |-> 6, parent |-> 2, children |-> <<11, 31>>, text |-> ""],  \* 10
     [type |-> "if_statement", srow |-> 1, erow |-> 5, parent |-> 10, children |-> <<12, 13, 14, 15, 21>>, text |-> ""],  \* 11
     [type |-> "if", srow |-> 1, erow |-> 1, parent |-> 11, children |-> <<>>, text |-> ""],  \* 12
     [type |-> "identifier", srow |-> 1, erow |-> 1, parent |-> 11, children |-> <<>>, text |-> "a"],  \* 13
     [type |-> ":", srow |-> 1, erow |-> 1, parent |-> 11, children |-> <<>>, text |-> ""],  \* 14
     [type |-> "block", srow |-> 2, erow |-> 2, parent |-> 11, children |-> <<16>>, text |-> ""],  \* 15
     [type |-> "expression_statement", srow |-> 2, erow |-> 2, parent |-> 15, children |-> <<17>>, text |-> ""],  \* 16
     [type |-> "assignment", srow |-> 2, erow |-> 2, parent |-> 16, children |-> <<18, 19, 20>>, text |-> ""],  \* 17
     [type |-> "identifier", srow |-> 2, erow |-> 2, parent |-> 17, children |-> <<>>, text |-> "b"],  \* 18
     [type |-> "=", srow |-> 2, erow |-> 2, parent |-> 17, children |-> <<>>, text |-> ""],  \* 19
     [type |-> "integer", srow |-> 2, erow |-> 2, parent |-> 17, children |-> <<>>, text |-> "1"],  \* 20
     [type |-> "else_clause", srow |-> 3, erow |-> 5, parent |-> 11, children |-> <<22, 23, 24, 25>>, text |-> ""],  \* 21
     [type |-> "else", srow |-> 3, erow |-> 3, parent |-> 21, children |-> <<>>, text |-> ""],  \* 22
     [type |-> ":", srow |-> 3, erow |-> 3, parent |-> 21, children |-> <<>>, text |-> ""],  \* 23
     [type |-> "comment", srow |-> 4, erow |-> 4, parent |-> 21, children |-> <<>>, text |-> ""],  \* 24
     [type |-> "block", srow |-> 5, erow |-> 5, parent |-> 21, children |-> <<26>>, text |-> ""],  \* 25
     [type |-> "expression_statement", srow |-> 5, erow |-> 5, parent |-> 25, children |-> <<27>>, text |-> ""],  \* 26
     [type |-> "assignment", srow |-> 5, erow |-> 5, parent |-> 26, children |-> <<28, 29, 30>>, text |-> ""],  \* 27
     [type |-> "identifier", srow |-> 5, erow |-> 5, parent |-> 27, children |-> <<>>, text |-> "c"],  \* 28
     [type |-> "=", srow |-> 5, erow |-> 5, parent |-> 27, children |-> <<>>, text |-> ""],  \* 29
     [type |-> "integer", srow |-> 5, erow |-> 5, parent |-> 27, children |-> <<>>, text |-> "2"],  \* 30
     [type |-> "return_statement", srow |-> 6, erow |-> 6, parent |-> 10, children |-> <<32, 33>>, text |-> ""],  \* 31
     [type |-> "return", srow |-> 6, erow |-> 6, parent |-> 31, children |-> <<>>, text |-> ""],  \* 32
     [type |-> "identifier", srow |-> 6, erow |-> 6, parent |-> 31, children |-> <<>>, text |-> "a"] >>  \* 33

PyStr_tree ==
  << [type |-> "module", srow |-> 0, erow |-> 3, parent |-> 0, children |-> <<2>>, text |-> ""],  \* 1
     [type |-> "function_definition", srow |-> 0, erow |-> 2, parent |-> 1, children |-> <<3, 4, 5, 9, 10>>, text |-> ""],  \* 2
     [type |-> "def", srow |-> 0, erow |-> 0, parent |-> 2, children |-> <<>>, text |-> ""],  \* 3
     [type |-> "identifier", srow |-> 0, erow |-> 0, parent |-> 2, children |-> <<>>, text |-> "f"],  \* 4
     [type |-> "parameters", srow |-> 0, erow |-> 0, parent |-> 2, children |-> <<6, 7, 8>>, text |-> ""],  \* 5
     [type |-> "(", srow |-> 0, erow |-> 0, parent |-> 5, children |-> <<>>, text |-> ""],  \* 6
     [type |-> "identifier", srow |-> 0, erow |-> 0, parent |-> 5, children |-> <<>>, text |-> "a"],  \* 7
     [type |-> ")", srow |-> 0, erow |-> 0, parent |-> 5, children |-> <<>>, text |-> ""],  \* 8
     [type |-> ":", srow |-> 0, erow |-> 0, parent |-> 2, children |-> <<>>, text |-> ""],  \* 9
     [type |-> "block", srow |-> 1, erow |-> 2, parent |-> 2, children |-> <<11, 16, 17>>, text |-> ""],  \* 10
     [type |-> "expression_statement", srow |-> 1, erow |-> 1, parent |-> 10, children |-> <<12>>, text |-> ""],  \* 11
     [type |-> "assignment", srow |-> 1, erow |-> 1, parent |-> 11, children |-> <<13, 14, 15>>, text |-> ""],  \* 12
     [type |-> "identifier", srow |-> 1, erow |-> 1, parent |-> 12, children |-> <<>>, text |-> "u"],  \* 13
     [type |-> "=", srow |-> 1, erow |-> 1, parent |-> 12, children |-> <<>>, text |-> ""],  \* 14
     [type |-> "string", srow |-> 1, erow |-> 1, parent |-> 12, children |-> <<>>, text |-> ""],  \* 15
     [type |-> "comment", srow |-> 1, erow |-> 1, parent |-> 10, children |-> <<>>, text |-> ""],  \* 16
     [type |-> "return_statement", srow |-> 2, erow |-> 2, parent |-> 10, children |-> <<18, 19>>, text |-> ""],  \* 17
     [type |-> "return", srow |-> 2, erow |-> 2, parent |-> 17, children |-> <<>>, text |-> ""],  \* 18
     [type |-> "identifier", srow |-> 2, erow |-> 2, parent |-> 17, children |-> <<>>, text |-> "a"] >>  \* 19

PyClass_tree ==
  << [type |-> "module", srow |-> 0, erow |-> 9, parent |-> 0, children |-> <<2>>, text |-> ""],  \* 1
     [type |-> "class_definition", srow |-> 0, erow |-> 8, parent |-> 1, children |-> <<3, 4, 5, 6>>, text |-> ""],  \* 2
     [type |-> "class", srow |-> 0, erow |-> 0, parent |-> 2, children |-> <<>>, text |-> ""],  \* 3
     [type |-> "identifier", srow |-> 0, erow |-> 0, parent |-> 2, children |-> <<>>, text |-> "C"],  \* 4
     [type |-> ":", srow |-> 0, erow |-> 0, parent |-> 2, children |-> <<>>, text |-> ""],  \* 5
     [type |-> "block", srow |-> 1, erow |-> 8, parent |-> 2, children |-> <<7, 21, 41>>, text |-> ""],  \* 6
     [type |-> "function_definition", srow |-> 1, erow |-> 2, parent |-> 6, children |-> <<8, 9, 10, 14, 15>>, text |-> ""],  \* 7
     [type |-> "def", srow |-> 1, erow |-> 1, parent |-> 7, children |-> <<>>, text |-> ""],  \* 8
     [type |-> "identifier", srow |-> 1, erow |-> 1, parent |-> 7, children |-> <<>>, text |-> "a"],  \* 9
     [type |-> "parameters", srow |-> 1, erow |-> 1, parent |-> 7, children |-> <<11, 12, 13>>, text |-> ""],  \* 10
     [type |-> "(", srow |-> 1, erow |-> 1, parent |-> 10, children |-> <<>>, text |-> ""],  \* 11
     [type |-> "identifier", srow |-> 1, erow |-> 1, parent |-> 10, children |-> <<>>, text |-> "self"],  \* 12
     [type |-> ")", srow |-> 1, erow |-> 1, parent |-> 10, children |-> <<>>, text |-> ""],  \* 13
     [type |-> ":", srow |-> 1, erow |-> 1, parent |-> 7, children |-> <<>>, text |-> ""],  \* 14
     [type |-> "block", srow |-> 2, erow |-> 2, parent |-> 7, children |-> <<16>>, text |-> ""],  \* 15
     [type |-> "expression_statement", srow |-> 2, erow |-> 2, parent |-> 15, children |-> <<17>>, text |-> ""],  \* 16
     [type |-> "assignment", srow |-> 2, erow |-> 2, parent |-> 16, children |-> <<18, 19, 20>>, text |-> ""],  \* 17
     [type |-> "identifier", srow |-> 2, erow |-> 2, parent |-> 17, children |-> <<>>, text |-> "x"],  \* 18
     [type |-> "=", srow |-> 2, erow |-> 2, parent |-> 17, children |-> <<>>, text |-> ""],  \* 19
     [type |-> "integer", srow |-> 2, erow |-> 2, parent |-> 17, children |-> <<>>, text |-> ""],  \* 20
     [type |-> "function_definition", srow |-> 3, erow |-> 6, parent |-> 6, children |-> <<22, 23, 24, 28, 29, 30>>, text |-> ""],  \* 21
     [type |-> "def", srow |-> 3, erow |-> 3, parent |-> 21, children |-> <<>>, text |-> ""],  \* 22
     [type |-> "identifier", srow |-> 3, erow |-> 3, parent |-> 21, children |-> <<>>, text |-> "b"],  \* 23
     [type |-> "parameters", srow |-> 3, erow |-> 3, parent |-> 21, children |-> <<25, 26, 27>>, text |-> ""],  \* 24
     [type |-> "(", srow |-> 3, erow |-> 3, parent |-> 24, children |-> <<>>, text |-> ""],  \* 25
     [type |-> "identifier", srow |-> 3, erow |-> 3, parent |-> 24, children |-> <<>>, text |-> "self"],  \* 26
     [type |-> ")", srow |-> 3, erow |-> 3, parent |-> 24, children |-> <<>>, text |-> ""],  \* 27
     [type |-> ":", srow |-> 3, erow |-> 3, parent |-> 21, children |-> <<>>, text |-> ""],  \* 28
     [type |-> "comment", srow |-> 4, erow |-> 4, parent |-> 21, children |-> <<>>, text |-> ""],  \* 29
     [type |-> "block", srow |-> 5, erow |-> 6, parent |-> 21, children |-> <<31, 36>>, text |-> ""],  \* 30
     [type |-> "expression_statement", srow |-> 5, erow |-> 5, parent |-> 30, children |-> <<32>>, text |-> ""],  \* 31
     [type |-> "assignment", srow |-> 5, erow |-> 5, parent |-> 31, children |-> <<33, 34, 35>>, text |-> ""],  \* 32
     [type |-> "identifier", srow |-> 5, erow |-> 5, parent |-> 32, children |-> <<>>, text |-> "x"],  \* 33
     [type |-> "=", srow |-> 5, erow |-> 5, parent |-> 32, children |-> <<>>, text |-> ""],  \* 34
     [type |-> "integer", srow |-> 5, erow |-> 5, parent |-> 32, children |-> <<>>, text |-> ""],  \* 35
     [type |-> "expression_statement", srow |-> 6, erow |-> 6, parent |-> 30, children |-> <<37>>, text |-> ""],  \* 36
     [type |-> "assignment", srow |-> 6, erow |-> 6, parent |-> 36, children |-> <<38, 39, 40>>, text |-> ""],  \* 37
     [type |-> "identifier", srow |-> 6, erow |-> 6, parent |-> 37, children |-> <<>>, text |-> "y"],  \* 38
     [type |-> "=", srow |-> 6, erow |-> 6, parent |-> 37, children |-> <<>>, text |-> ""],  \* 39
     [type |-> "identifier", srow |-> 6, erow |-> 6, parent |-> 37, children |-> <<>>, text |-> "x"],  \* 40
     [type |-> "function_definition", srow |-> 7, erow |-> 8, parent |-> 6, children |-> <<42, 43, 44, 48, 49>>, text |-> ""],  \* 41
     [type |-> "def", srow |-> 7, erow |-> 7, parent |-> 41, children |-> <<>>, text |-> ""],  \* 42
     [type |-> "identifier", srow |-> 7, erow |-> 7, parent |-> 41, children |-> <<>>, text |-> "c"],  \* 43
     [type |-> "parameters", srow |-> 7, erow |-> 7, parent |-> 41, children |-> <<45, 46, 47>>, text |-> ""],  \* 44
     [type |-> "(", srow |-> 7, erow |-> 7, parent |-> 44, children |-> <<>>, text |-> ""],  \* 45
     [type |-> "identifier", srow |-> 7, erow |-> 7, parent |-> 44, children |-> <<>>, text |-> "self"],  \* 46
     [type |-> ")", srow |-> 7, erow |-> 7, parent |-> 44, children |-> <<>>, text |-> ""],  \* 47
     [type |-> ":", srow |-> 7, erow |-> 7, parent |-> 41, children |-> <<>>, text |-> ""],  \* 48
     [type |-> "block", srow |-> 8, erow |-> 8, parent |-> 41, children |-> <<50>>, text |-> ""],  \* 49
     [type |-> "expression_statement", srow |-> 8, erow |-> 8, parent |-> 49, children |-> <<51>>, text |-> ""],  \* 50
     [type |-> "assignment", srow |-> 8, erow |-> 8, parent |-> 50, children |-> <<52, 53, 54>>, text |-> ""],  \* 51
     [type |-> "identifier", srow |-> 8, erow |-> 8, parent |-> 51, children |-> <<>>, text |-> "x"],  \* 52
     [type |-> "=", srow |-> 8, erow |-> 8, parent |-> 51, children |-> <<>>, text |-> ""],  \* 53
     [type |-> "integer", srow |-> 8, erow |-> 8, parent |-> 51, children |-> <<>>, text |-> ""] >>  \* 54

JavaClass_tree ==
  << [type |-> "program", srow |-> 0, erow |-> 8, parent |-> 0, children |-> <<2>>, text |-> ""],  \* 1
     [type |-> "class_declaration", srow |-> 0, erow |-> 7, parent |-> 1, children |-> <<3, 4, 5>>, text |-> ""],  \* 2
     [type |-> "class", srow |-> 0, erow |-> 0, parent |-> 2, children |-> <<>>, text |-> ""],  \* 3
     [type |-> "identifier", srow |-> 0, erow |-> 0, parent |-> 2, children |-> <<>>, text |-> "A"],  \* 4
     [type |-> "class_body", srow |-> 0, erow |-> 7, parent |-> 2, children |-> <<6, 7, 17, 43>>, text |-> ""],  \* 5
     [type |-> "{", srow |-> 0, erow |-> 0, parent |-> 5, children |-> <<>>, text |-> ""],  \* 6
     [type |-> "field_declaration", srow |-> 1, erow |-> 1, parent |-> 5, children |-> <<8, 9, 16>>, text |-> ""],  \* 7
     [type |-> "type_identifier", srow |-> 1, erow |-> 1, parent |-> 7, children |-> <<>>, text |-> "F"],  \* 8
     [type |-> "variable_declarator", srow |-> 1, erow |-> 1, parent |-> 7, children |-> <<10, 11, 12>>, text |-> ""],  \* 9
     [type |-> "identifier", srow |-> 1, erow |-> 1, parent |-> 9, children |-> <<>>, text |-> "g"],  \* 10
     [type |-> "=", srow |-> 1, erow |-> 1, parent |-> 9, children |-> <<>>, text |-> ""],  \* 11
     [type |-> "lambda_expression", srow |-> 1, erow |-> 1, parent |-> 9, children |-> <<13, 14, 15>>, text |-> ""],  \* 12
     [type |-> "identifier", srow |-> 1, erow |-> 1, parent |-> 12, children |-> <<>>, text |-> "y"],  \* 13
     [type |-> "->", srow |-> 1, erow |-> 1, parent |-> 12, children |-> <<>>, text |-> ""],  \* 14
     [type |-> "identifier", srow |-> 1, erow |-> 1, parent |-> 12, children |-> <<>>, text |-> "y"],  \* 15
     [type |-> ";", srow |-> 1, erow |-> 1, parent |-> 7, children |-> <<>>, text |-> ""],  \* 16
     [type |-> "method_declaration", srow |-> 2, erow |-> 6, parent |-> 5, children |-> <<18, 19, 20, 26>>, text |-> ""],  \* 17
     [type |-> "integral_type", srow |-> 2, erow |-> 2, parent |-> 17, children |-> <<>>, text |-> ""],  \* 18
     [type |-> "identifier", srow |-> 2, erow |-> 2, parent |-> 17, children |-> <<>>, text |-> "f"],  \* 19
     [type |-> "formal_parameters", srow |-> 2, erow |-> 2, parent |-> 17, children |-> <<21, 22, 25>>, text |-> ""],  \* 20
     [type |-> "(", srow |-> 2, erow |-> 2, parent |-> 20, children |-> <<>>, text |-> ""],  \* 21
     [type |-> "formal_parameter", srow |-> 2, erow |-> 2, parent |-> 20, children |-> <<23, 24>>, text |-> ""],  \* 22
     [type |-> "integral_type", srow |-> 2, erow |-> 2, parent |-> 22, children |-> <<>>, text |-> ""],  \* 23
     [type |-> "identifier", srow |-> 2, erow |-> 2, parent |-> 22, children |-> <<>>, text |-> "x"],  \* 24
     [type |-> ")", srow |-> 2, erow |-> 2, parent |-> 20, children |-> <<>>, text |-> ""],  \* 25
     [type |-> "block", srow |-> 2, erow |-> 6, parent |-> 17, children |-> <<27, 28, 29, 38, 42>>, text |-> ""],  \* 26
     [type |-> "{", srow |-> 2, erow |-> 2, parent |-> 26, children |-> <<>>, text |-> ""],  \* 27
     [type |-> "line_comment", srow |-> 3, erow |-> 3, parent |-> 26, children |-> <<>>, text |-> ""],  \* 28
     [type |-> "expression_statement", srow |-> 4, erow |-> 4, parent |-> 26, children |-> <<30, 37>>, text |-> ""],  \* 29
     [type |-> "assignment_expression", srow |-> 4, erow |-> 4, parent |-> 29, children |-> <<31, 32, 33>>, text |-> ""],  \* 30
     [type |-> "identifier", srow |-> 4, erow |-> 4, parent |-> 30, children |-> <<>>, text |-> "x"],  \* 31
     [type |-> "=", srow |-> 4, erow |-> 4, parent |-> 30, children |-> <<>>, text |-> ""],  \* 32
     [type |-> "binary_expression", srow |-> 4, erow |-> 4, parent |-> 30, children |-> <<34, 35, 36>>, text |-> ""],  \* 33
     [type |-> "identifier", srow |-> 4, erow |-> 4, parent |-> 33, children |-> <<>>, text |-> "x"],  \* 34
     [type |-> "+", srow |-> 4, erow |-> 4, parent |-> 33, children |-> <<>>, text |-> ""],  \* 35
     [type |-> "decimal_integer_literal", srow |-> 4, erow |-> 4, parent |-> 33, children |-> <<>>, text |-> ""],  \* 36
     [type |-> ";", srow |-> 4, erow |-> 4, parent |-> 29, children |-> <<>>, text |-> ""],  \* 37
     [type |-> "return_statement", srow |-> 5, erow |-> 5, parent |-> 26, children |-> <<39, 40, 41>>, text |-> ""],  \* 38
     [type |-> "return", srow |-> 5, erow |-> 5, parent |-> 38, children |-> <<>>, text |-> ""],  \* 39
     [type |-> "identifier", srow |-> 5, erow |-> 5, parent |-> 38, children |-> <<>>, text |-> "x"],  \* 40
     [type |-> ";", srow |-> 5, erow |-> 5, parent |-> 38, children |-> <<>>, text |-> ""],  \* 41
     [type |-> "}", srow |-> 6, erow |-> 6, parent |-> 26, children |-> <<>>, text |-> ""],  \* 42
     [type |-> "}", srow |-> 7, erow |-> 7, parent |-> 5, children |-> <<>>, text |-> ""] >>  \* 43

GoFunc_tree ==
  << [type |-> "source_file", srow |-> 0, erow |-> 5, parent |-> 0, children |-> <<2, 5>>, text |-> ""],  \* 1
     [type |-> "package_clause", srow |-> 0, erow |-> 0, parent |-> 1, children |-> <<3, 4>>, text |-> ""],  \* 2
     [type |-> "package", srow |-> 0, erow |-> 0, parent |-> 2, children |-> <<>>, text |-> ""],  \* 3
     [type |-> "package_identifier", srow |-> 0, erow |-> 0, parent |-> 2, children |-> <<>>, text |-> "main"],  \* 4
     [type |-> "function_declaration", srow |-> 2, erow |-> 4, parent |-> 1, children |-> <<6, 7, 8, 14, 15>>, text |-> ""],  \* 5
     [type |-> "func", srow |-> 2, erow |-> 2, parent |-> 5, children |-> <<>>, text |-> ""],  \* 6
     [type |-> "identifier", srow |-> 2, erow |-> 2, parent |-> 5, children |-> <<>>, text |-> "Add"],  \* 7
     [type |-> "parameter_list", srow |-> 2, erow |-> 2, parent |-> 5, children |-> <<9, 10, 13>>, text |-> ""],  \* 8
     [type |-> "(", srow |-> 2, erow |-> 2, parent |-> 8, children |-> <<>>, text |-> ""],  \* 9
     [type |-> "parameter_declaration", srow |-> 2, erow |-> 2, parent |-> 8, children |-> <<11, 12>>, text |-> ""],  \* 10
     [type |-> "identifier", srow |-> 2, erow |-> 2, parent |-> 10, children |-> <<>>, text |-> "a"],  \* 11
     [type |-> "type_identifier", srow |-> 2, erow |-> 2, parent |-> 10, children |-> <<>>, text |-> "int"],  \* 12
     [type |-> ")", srow |-> 2, erow |-> 2, parent |-> 8, children |-> <<>>, text |-> ""],  \* 13
     [type |-> "type_identifier", srow |-> 2, erow |-> 2, parent |-> 5, children |-> <<>>, text |-> "int"],  \* 14
     [type |-> "block", srow |-> 2, erow |-> 4, parent |-> 5, children |-> <<16, 17, 21>>, text |-> ""],  \* 15
     [type |-> "{", srow |-> 2, erow |-> 2, parent |-> 15, children |-> <<>>, text |-> ""],  \* 16
     [type |-> "return_statement", srow |-> 3, erow |-> 3, parent |-> 15, children |-> <<18, 19>>, text |-> ""],  \* 17
     [type |-> "return", srow |-> 3, erow |-> 3, parent |-> 17, children |-> <<>>, text |-> ""],  \* 18
     [type |-> "expression_list", srow |-> 3, erow |-> 3, parent |-> 17, children |-> <<20>>, text |-> ""],  \* 19
     [type |-> "identifier", srow |-> 3, erow |-> 3, parent |-> 19, children |-> <<>>, text |-> "a"],  \* 20
     [type |-> "}", srow |-> 4, erow |-> 4, parent |-> 15, children |-> <<>>, text |-> ""] >>  \* 21

\* A file that holds one empty line: the tree is the root alone.
BlankFile_lines == << <<>> >>
BlankFile_tree ==
  << [type |-> "translation_unit", srow |-> 1, erow |-> 1, parent |-> 0,
      children |-> <<>>, text |-> ""] >>

\* The generated chain functions: statement i of 1..ChainLen is
\* `v<i> = v<p[i]>;', v0 being the parameter.
\*     int f(int v0) {
\*       v1 = v<p[1]>;
\*       ...
\*     }
VarName(i) == <<"v0", "v1", "v2", "v3", "v4", "v5", "v6">>[i + 1]

\* Statement i reads the parameter, the variable before it or the variable
\* after it (the one of the first statement for the last): straight chains,
\* reversed chains and cycles.
ChainParams ==
  {p \in [1 .. ChainLen -> 0 .. ChainLen] :
     \A i \in 1 .. ChainLen : p[i] \in {0, i - 1, (i % ChainLen) + 1}}

Chain_lines(p) ==
  << <<"int f(int ", "v0", ")", " ", "{">> >>
  \o [i \in 1 .. ChainLen |-> Ind2 \o <<VarName(i), " = ", VarName(p[i]), ";">>]
  \o << <<"}">> >>

Leaf(type, row, parent, text) ==
  [type |-> type, srow |-> row, erow |-> row, parent |-> parent,
   children |-> <<>>, text |-> text]

Inner(type, srow, erow, parent, children) ==
  [type |-> type, srow |-> srow, erow |-> erow, parent |-> parent,
   children |-> children, text |-> ""]

\* Node 13 + 6(i-1) + 1 is the expression_statement of statement i.
ChainStmt(i) == 13 + 6 * (i - 1)

Chain_tree(p) ==
  LET last == ChainLen + 1
      close == ChainStmt(ChainLen + 1) + 1
  IN << Inner("translation_unit", 0, last + 1, 0, <<2>>),                     \* 1
        Inner("function_definition", 0, last, 1, <<3, 4, 12>>),               \* 2
        Leaf("primitive_type", 0, 2, ""),                                      \* 3
        Inner("function_declarator", 0, 0, 2, <<5, 6>>),                       \* 4
        Leaf("identifier", 0, 4, "f"),                                         \* 5
        Inner("parameter_list", 0, 0, 4, <<7, 8, 11>>),                        \* 6
        Leaf("(", 0, 6, ""),                                                   \* 7
        Inner("parameter_declaration", 0, 0, 6, <<9, 10>>),                    \* 8
        Leaf("primitive_type", 0, 8, ""),                                      \* 9
        Leaf("identifier", 0, 8, "v0"),                                        \* 10
        Leaf(")", 0, 6, ""),                                                   \* 11
        Inner("compound_statement", 0, last, 2,
              <<13>> \o [i \in 1 .. ChainLen |-> ChainStmt(i) + 1] \o <<close>>), \* 12
        Leaf("{", 0, 12, "") >>                                                \* 13
     \o Flatten([i \in 1 .. ChainLen |->
          LET b == ChainStmt(i) IN
          << Inner("expression_statement", i, i, 12, <<b + 2, b + 6>>),
             Inner("assignment_expression", i, i, b + 1, <<b + 3, b + 4, b + 5>>),
             Leaf("identifier", i, b + 2, VarName(i)),
             Leaf("=", i, b + 2, ""),
             Leaf("identifier", i, b + 2, VarName(p[i])),
             Leaf(";", i, b + 1, "") >>])
     \o << Leaf("}", last, 12, "") >>

\* Node.start_point / Node.end_point columns, counted in tokens of the row:
\* scol tokens precede the node on its first row, and the node ends after
\* ecol tokens of its last row.  A node starts at the first code of its first
\* row and ends with its last row unless `cols' places it inside the row; a
\* root that ends after the final newline ends at column 0 of the row below
\* the last line.
WithCols(ls, T, cols) ==
  [n \in DOMAIN T |->
     [type |-> T[n].type, srow |-> T[n].srow, erow |-> T[n].erow,
      parent |-> T[n].parent, children |-> T[n].children, text |-> T[n].text,
      scol |-> IF n \in DOMAIN cols THEN cols[n][1]
               ELSE IF T[n].srow + 1 \in DOMAIN ls THEN LeadingWs(ls[T[n].srow + 1])
               ELSE 0,
      ecol |-> IF n \in DOMAIN cols THEN cols[n][2]
               ELSE IF T[n].erow + 1 \in DOMAIN ls THEN Len(RStrip(ls[T[n].erow + 1]))
               ELSE 0]]

Program(grammar, ls, tree, cols) ==
  [grammar |-> grammar, source |-> FileText(ls), tree |-> WithCols(ls, tree, cols)]

\* Nodes that open inside their first row: brace bodies, and the lambda.
ScenarioA_cols == (59 :> <<6, 5>>) @@ (81 :> <<6, 5>>)
JavaClass_cols == (5 :> <<2, 1>>) @@ (12 :> <<3, 4>>) @@ (26 :> <<4, 3>>)
GoFunc_cols == (15 :> <<2, 1>>)
Chain_cols == (12 :> <<4, 1>>)

ScenarioA == Program("CPP_LANGUAGE", ScenarioA_lines, ScenarioA_tree, ScenarioA_cols)
PyClass == Program("PY_LANGUAGE", PyClass_lines, PyClass_tree, <<>>)
PyNested == Program("PY_LANGUAGE", PyNested_lines, PyNested_tree, <<>>)
PyElse == Program("PY_LANGUAGE", PyElse_lines, PyElse_tree, <<>>)
PyStr_cols == (15 :> <<5, 10>>) @@ (16 :> <<12, 14>>)
PyStr == Program("PY_LANGUAGE", PyStr_lines, PyStr_tree, PyStr_cols)
JavaClass == Program("JAVA_LANGUAGE", JavaClass_lines, JavaClass_tree, JavaClass_cols)
GoFunc == Program("GO_LANGUAGE", GoFunc_lines, GoFunc_tree, GoFunc_cols)
BlankFile == Program("CPP_LANGUAGE", BlankFile_lines, BlankFile_tree, <<>>)
Chains ==
  {Program("CPP_LANGUAGE", Chain_lines(p), Chain_tree(p), Chain_cols) : p \in ChainParams}

\* tests/test_extract.py, CASES: file name, program, target line, and the
\* name of the function the program defines; one small function per
\* extension, the function's name a token of its own.
Case(name, prog, line, func) == [filename |-> name, prog |-> prog, line |-> line, func |-> func]

CASES ==
  LET
      BatteryPy_lines ==
        << <<"def ", "foo", "():">>,
           <<" ", " ", "c = 1+3">>,
           <<" ", " ", "return 1">> >>

      BatteryPy_tree ==
        << [type |-> "module", srow |-> 0, erow |-> 3, parent |-> 0, children |-> <<2>>, text |-> ""],  \* 1
           [type |-> "function_definition", srow |-> 0, erow |-> 2, parent |-> 1, children |-> <<3, 4, 5, 8, 9>>, text |-> ""],  \* 2
           [type |-> "def", srow |-> 0, erow |-> 0, parent |-> 2, children |-> <<>>, text |-> ""],  \* 3
           [type |-> "identifier", srow |-> 0, erow |-> 0, parent |-> 2, children |-> <<>>, text |-> "foo"],  \* 4
           [type |-> "parameters", srow |-> 0, erow |-> 0, parent |-> 2, children |-> <<6, 7>>, text |-> ""],  \* 5
           [type |-> "(", srow |-> 0, erow |-> 0, parent |-> 5, children |-> <<>>, text |-> ""],  \* 6
           [type |-> ")", srow |-> 0, erow |-> 0, parent |-> 5, children |-> <<>>, text |-> ""],  \* 7
           [type |-> ":", srow |-> 0, erow |-> 0, parent |-> 2, children |-> <<>>, text |-> ""],  \* 8
           [type |-> "block", srow |-> 1, erow |-> 2, parent |-> 2, children |-> <<10, 18>>, text |-> ""],  \* 9
           [type |-> "expression_statement", srow |-> 1, erow |-> 1, parent |-> 9, children |-> <<11>>, text |-> ""],  \* 10
           [type |-> "assignment", srow |-> 1, erow |-> 1, parent |-> 10, children |-> <<12, 13, 14>>, text |-> ""],  \* 11
           [type |-> "identifier", srow |-> 1, erow |-> 1, parent |-> 11, children |-> <<>>, text |-> "c"],  \* 12
           [type |-> "=", srow |-> 1, erow |-> 1, parent |-> 11, children |-> <<>>, text |-> ""],  \* 13
           [type |-> "binary_operator", srow |-> 1, erow |-> 1, parent |-> 11, children |-> <<15, 16, 17>>, text |-> ""],  \* 14
           [type |-> "integer", srow |-> 1, erow |-> 1, parent |-> 14, children |-> <<>>, text |-> ""],  \* 15
           [type |-> "+", srow |-> 1, erow |-> 1, parent |-> 14, children |-> <<>>, text |-> ""],  \* 16
           [type |-> "integer", srow |-> 1, erow |-> 1, parent |-> 14, children |-> <<>>, text |-> ""],  \* 17
           [type |-> "return_statement", srow |-> 2, erow |-> 2, parent |-> 9, children |-> <<19, 20>>, text |-> ""],  \* 18
           [type |-> "return", srow |-> 2, erow |-> 2, parent |-> 18, children |-> <<>>, text |-> ""],  \* 19
           [type |-> "integer", srow |-> 2, erow |-> 2, parent |-> 18, children |-> <<>>, text |-> ""] >>  \* 20

      BatteryPy_cols == <<>>

      BatteryH_lines ==
        << <<"int ", "foo", "()", "{", " ", "int c = 1+3;">>,
           <<" ", "return 1;", " ", "}">> >>

      BatteryH_tree ==
        << [type |-> "translation_unit", srow |-> 0, erow |-> 2, parent |-> 0, children |-> <<2>>, text |-> ""],  \* 1
           [type |-> "function_definition", srow |-> 0, erow |-> 1, parent |-> 1, children |-> <<3, 4, 9>>, text |-> ""],  \* 2
           [type |-> "primitive_type", srow |-> 0, erow |-> 0, parent |-> 2, children |-> <<>>, text |-> ""],  \* 3
           [type |-> "function_declarator", srow |-> 0, erow |-> 0, parent |-> 2, children |-> <<5, 6>>, text |-> ""],  \* 4
           [type |-> "identifier", srow |-> 0, erow |-> 0, parent |-> 4, children |-> <<>>, text |-> "foo"],  \* 5
           [type |-> "parameter_list", srow |-> 0, erow |-> 0, parent |-> 4, children |-> <<7, 8>>, text |-> ""],  \* 6
           [type |-> "(", srow |-> 0, erow |-> 0, parent |-> 6, children |-> <<>>, text |-> ""],  \* 7
           [type |-> ")", srow |-> 0, erow |-> 0, parent |-> 6, children |-> <<>>, text |-> ""],  \* 8
           [type |-> "compound_statement", srow |-> 0, erow |-> 1, parent |-> 2, children |-> <<10, 11, 21, 25>>, text |-> ""],  \* 9
           [type |-> "{", srow |-> 0, erow |-> 0, parent |-> 9, children |-> <<>>, text |-> ""],  \* 10
           [type |-> "declaration", srow |-> 0, erow |-> 0, parent |-> 9, children |-> <<12, 13, 20>>, text |-> ""],  \* 11
           [type |-> "primitive_type", srow |-> 0, erow |-> 0, parent |-> 11, children |-> <<>>, text |-> ""],  \* 12
           [type |-> "init_declarator", srow |-> 0, erow |-> 0, parent |-> 11, children |-> <<14, 15, 16>>, text |-> ""],  \* 13
           [type |-> "identifier", srow |-> 0, erow |-> 0, parent |-> 13, children |-> <<>>, text |-> "c"],  \* 14
           [type |-> "=", srow |-> 0, erow |-> 0, parent |-> 13, children |-> <<>>, text |-> ""],  \* 15
           [type |-> "binary_expression", srow |-> 0, erow |-> 0, parent |-> 13, children |-> <<17, 18, 19>>, text |-> ""],  \* 16
           [type |-> "number_literal", srow |-> 0, erow |-> 0, parent |-> 16, children |-> <<>>, text |-> ""],  \* 17
           [type |-> "+", srow |-> 0, erow |-> 0, parent |-> 16, children |-> <<>>, text |-> ""],  \* 18
           [type |-> "number_literal", srow |-> 0, erow |-> 0, parent |-> 16, children |-> <<>>, text |-> ""],  \* 19
           [type |-> ";", srow |-> 0, erow |-> 0, parent |-> 11, children |-> <<>>, text |-> ""],  \* 20
           [type |-> "return_statement", srow |-> 1, erow |-> 1, parent |-> 9, children |-> <<22, 23, 24>>, text |-> ""],  \* 21
           [type |-> "return", srow |-> 1, erow |-> 1, parent |-> 21, children |-> <<>>, text |-> ""],  \* 22
           [type |-> "number_literal", srow |-> 1, erow |-> 1, parent |-> 21, children |-> <<>>, text |-> ""],  \* 23
           [type |-> ";", srow |-> 1, erow |-> 1, parent |-> 21, children |-> <<>>, text |-> ""],  \* 24
           [type |-> "}", srow |-> 1, erow |-> 1, parent |-> 9, children |-> <<>>, text |-> ""] >>  \* 25

      BatteryH_cols == (9 :> <<3, 4>>)

      BatteryCpp_lines ==
        << <<"int ", "foo", "()", "{", " ", "int c = 1+3;">>,
           <<"return 1;", " ", "}">> >>

      BatteryCpp_tree ==
        << [type |-> "translation_unit", srow |-> 0, erow |-> 2, parent |-> 0, children |-> <<2>>, text |-> ""],  \* 1
           [type |-> "function_definition", srow |-> 0, erow |-> 1, parent |-> 1, children |-> <<3, 4, 9>>, text |-> ""],  \* 2
           [type |-> "primitive_type", srow |-> 0, erow |-> 0, parent |-> 2, children |-> <<>>, text |-> ""],  \* 3
           [type |-> "function_declarator", srow |-> 0, erow |-> 0, parent |-> 2, children |-> <<5, 6>>, text |-> ""],  \* 4
           [type |-> "identifier", srow |-> 0, erow |-> 0, parent |-> 4, children |-> <<>>, text |-> "foo"],  \* 5
           [type |-> "parameter_list", srow |-> 0, erow |-> 0, parent |-> 4, children |-> <<7, 8>>, text |-> ""],  \* 6
           [type |-> "(", srow |-> 0, erow |-> 0, parent |-> 6, children |-> <<>>, text |-> ""],  \* 7
           [type |-> ")", srow |-> 0, erow |-> 0, parent |-> 6, children |-> <<>>, text |-> ""],  \* 8
           [type |-> "compound_statement", srow |-> 0, erow |-> 1, parent |-> 2, children |-> <<10, 11, 21, 25>>, text |-> ""],  \* 9
           [type |-> "{", srow |-> 0, erow |-> 0, parent |-> 9, children |-> <<>>, text |-> ""],  \* 10
           [type |-> "declaration", srow |-> 0, erow |-> 0, parent |-> 9, children |-> <<12, 13, 20>>, text |-> ""],  \* 11
           [type |-> "primitive_type", srow |-> 0, erow |-> 0, parent |-> 11, children |-> <<>>, text |-> ""],  \* 12
           [type |-> "init_declarator", srow |-> 0, erow |-> 0, parent |-> 11, children |-> <<14, 15, 16>>, text |-> ""],  \* 13
           [type |-> "identifier", srow |-> 0, erow |-> 0, parent |-> 13, children |-> <<>>, text |-> "c"],  \* 14
           [type |-> "=", srow |-> 0, erow |-> 0, parent |-> 13, children |-> <<>>, text |-> ""],  \* 15
           [type |-> "binary_expression", srow |-> 0, erow |-> 0, parent |-> 13, children |-> <<17, 18, 19>>, text |-> ""],  \* 16
           [type |-> "number_literal", srow |-> 0, erow |-> 0, parent |-> 16, children |-> <<>>, text |-> ""],  \* 17
           [type |-> "+", srow |-> 0, erow |-> 0, parent |-> 16, children |-> <<>>, text |-> ""],  \* 18
           [type |-> "number_literal", srow |-> 0, erow |-> 0, parent |-> 16, children |-> <<>>, text |-> ""],  \* 19
           [type |-> ";", srow |-> 0, erow |-> 0, parent |-> 11, children |-> <<>>, text |-> ""],  \* 20
           [type |-> "return_statement", srow |-> 1, erow |-> 1, parent |-> 9, children |-> <<22, 23, 24>>, text |-> ""],  \* 21
           [type |-> "return", srow |-> 1, erow |-> 1, parent |-> 21, children |-> <<>>, text |-> ""],  \* 22
           [type |-> "number_literal", srow |-> 1, erow |-> 1, parent |-> 21, children |-> <<>>, text |-> ""],  \* 23
           [type |-> ";", srow |-> 1, erow |-> 1, parent |-> 21, children |-> <<>>, text |-> ""],  \* 24
           [type |-> "}", srow |-> 1, erow |-> 1, parent |-> 9, children |-> <<>>, text |-> ""] >>  \* 25

      BatteryCpp_cols == (9 :> <<3, 3>>)

      BatteryC_lines ==
        << <<"int ", "foo", "()", "{", " ", "return 1;", " ", "}">> >>

      BatteryC_tree ==
        << [type |-> "translation_unit", srow |-> 0, erow |-> 1, parent |-> 0, children |-> <<2>>, text |-> ""],  \* 1
           [type |-> "function_definition", srow |-> 0, erow |-> 0, parent |-> 1, children |-> <<3, 4, 9>>, text |-> ""],  \* 2
           [type |-> "primitive_type", srow |-> 0, erow |-> 0, parent |-> 2, children |-> <<>>, text |-> ""],  \* 3
           [type |-> "function_declarator", srow |-> 0, erow |-> 0, parent |-> 2, children |-> <<5, 6>>, text |-> ""],  \* 4
           [type |-> "identifier", srow |-> 0, erow |-> 0, parent |-> 4, children |-> <<>>, text |-> "foo"],  \* 5
           [type |-> "parameter_list", srow |-> 0, erow |-> 0, parent |-> 4, children |-> <<7, 8>>, text |-> ""],  \* 6
           [type |-> "(", srow |-> 0, erow |-> 0, parent |-> 6, children |-> <<>>, text |-> ""],  \* 7
           [type |-> ")", srow |-> 0, erow |-> 0, parent |-> 6, children |-> <<>>, text |-> ""],  \* 8
           [type |-> "compound_statement", srow |-> 0, erow |-> 0, parent |-> 2, children |-> <<10, 11, 15>>, text |-> ""],  \* 9
           [type |-> "{", srow |-> 0, erow |-> 0, parent |-> 9, children |-> <<>>, text |-> ""],  \* 10
           [type |-> "return_statement", srow |-> 0, erow |-> 0, parent |-> 9, children |-> <<12, 13, 14>>, text |-> ""],  \* 11
           [type |-> "return", srow |-> 0, erow |-> 0, parent |-> 11, children |-> <<>>, text |-> ""],  \* 12
           [type |-> "number_literal", srow |-> 0, erow |-> 0, parent |-> 11, children |-> <<>>, text |-> ""],  \* 13
           [type |-> ";", srow |-> 0, erow |-> 0, parent |-> 11, children |-> <<>>, text |-> ""],  \* 14
           [type |-> "}", srow |-> 0, erow |-> 0, parent |-> 9, children |-> <<>>, text |-> ""] >>  \* 15

      BatteryC_cols == (9 :> <<3, 8>>)

      BatteryJs_lines ==
        << <<"function ", "foo", "()", "{", " ", "return 1;", " ", "}">> >>

      BatteryJs_tree ==
        << [type |-> "program", srow |-> 0, erow |-> 1, parent |-> 0, children |-> <<2>>, text |-> ""],  \* 1
           [type |-> "function_declaration", srow |-> 0, erow |-> 0, parent |-> 1, children |-> <<3, 4, 5, 8>>, text |-> ""],  \* 2
           [type |-> "function", srow |-> 0, erow |-> 0, parent |-> 2, children |-> <<>>, text |-> ""],  \* 3
           [type |-> "identifier", srow |-> 0, erow |-> 0, parent |-> 2, children |-> <<>>, text |-> "foo"],  \* 4
           [type |-> "formal_parameters", srow |-> 0, erow |-> 0, parent |-> 2, children |-> <<6, 7>>, text |-> ""],  \* 5
           [type |-> "(", srow |-> 0, erow |-> 0, parent |-> 5, children |-> <<>>, text |-> ""],  \* 6
           [type |-> ")", srow |-> 0, erow |-> 0, parent |-> 5, children |-> <<>>, text |-> ""],  \* 7
           [type |-> "statement_block", srow |-> 0, erow |-> 0, parent |-> 2, children |-> <<9, 10, 14>>, text |-> ""],  \* 8
           [type |-> "{", srow |-> 0, erow |-> 0, parent |-> 8, children |-> <<>>, text |-> ""],  \* 9
           [type |-> "return_statement", srow |-> 0, erow |-> 0, parent |-> 8, children |-> <<11, 12, 13>>, text |-> ""],  \* 10
           [type |-> "return", srow |-> 0, erow |-> 0, parent |-> 10, children |-> <<>>, text |-> ""],  \* 11
           [type |-> "number", srow |-> 0, erow |-> 0, parent |-> 10, children |-> <<>>, text |-> ""],  \* 12
           [type |-> ";", srow |-> 0, erow |-> 0, parent |-> 10, children |-> <<>>, text |-> ""],  \* 13
           [type |-> "}", srow |-> 0, erow |-> 0, parent |-> 8, children |-> <<>>, text |-> ""] >>  \* 14

      BatteryJs_cols == (2 :> <<0, 8>>) @@ (3 :> <<0, 1>>) @@ (8 :> <<3, 8>>)

      BatteryMjs_lines ==
        << <<"export ", "function ", "foo", "()", "{", " ", "return 1;", " ", "}">> >>

      BatteryMjs_tree ==
        << [type |-> "program", srow |-> 0, erow |-> 1, parent |-> 0, children |-> <<2>>, text |-> ""],  \* 1
           [type |-> "export_statement", srow |-> 0, erow |-> 0, parent |-> 1, children |-> <<3, 4>>, text |-> ""],  \* 2
           [type |-> "export", srow |-> 0, erow |-> 0, parent |-> 2, children |-> <<>>, text |-> ""],  \* 3
           [type |-> "function_declaration", srow |-> 0, erow |-> 0, parent |-> 2, children |-> <<5, 6, 7, 10>>, text |-> ""],  \* 4
           [type |-> "function", srow |-> 0, erow |-> 0, parent |-> 4, children |-> <<>>, text |-> ""],  \* 5
           [type |-> "identifier", srow |-> 0, erow |-> 0, parent |-> 4, children |-> <<>>, text |-> "foo"],  \* 6
           [type |-> "formal_parameters", srow |-> 0, erow |-> 0, parent |-> 4, children |-> <<8, 9>>, text |-> ""],  \* 7
           [type |-> "(", srow |-> 0, erow |-> 0, parent |-> 7, children |-> <<>>, text |-> ""],  \* 8
           [type |-> ")", srow |-> 0, erow |-> 0, parent |-> 7, children |-> <<>>, text |-> ""],  \* 9
           [type |-> "statement_block", srow |-> 0, erow |-> 0, parent |-> 4, children |-> <<11, 12, 16>>, text |-> ""],  \* 10
           [type |-> "{", srow |-> 0, erow |-> 0, parent |-> 10, children |-> <<>>, text |-> ""],  \* 11
           [type |-> "return_statement", srow |-> 0, erow |-> 0, parent |-> 10, children |-> <<13, 14, 15>>, text |-> ""],  \* 12
           [type |-> "return", srow |-> 0, erow |-> 0, parent |-> 12, children |-> <<>>, text |-> ""],  \* 13
           [type |-> "number", srow |-> 0, erow |-> 0, parent |-> 12, children |-> <<>>, text |-> ""],  \* 14
           [type |-> ";", srow |-> 0, erow |-> 0, parent |-> 12, children |-> <<>>, text |-> ""],  \* 15
           [type |-> "}", srow |-> 0, erow |-> 0, parent |-> 10, children |-> <<>>, text |-> ""] >>  \* 16

      BatteryMjs_cols == (3 :> <<0, 1>>) @@ (4 :> <<1, 9>>) @@ (5 :> <<1, 2>>) @@ (10 :> <<4, 9>>)

      BatteryTs_lines ==
        << <<"function ", "foo", "(): number", " ", "{", " ", "return 1;", " ", "}">> >>

      BatteryTs_tree ==
        << [type |-> "program", srow |-> 0, erow |-> 1, parent |-> 0, children |-> <<2>>, text |-> ""],  \* 1
           [type |-> "function_declaration", srow |-> 0, erow |-> 0, parent |-> 1, children |-> <<3, 4, 5, 8, 11>>, text |-> ""],  \* 2
           [type |-> "function", srow |-> 0, erow |-> 0, parent |-> 2, children |-> <<>>, text |-> ""],  \* 3
           [type |-> "identifier", srow |-> 0, erow |-> 0, parent |-> 2, children |-> <<>>, text |-> "foo"],  \* 4
           [type |-> "formal_parameters", srow |-> 0, erow |-> 0, parent |-> 2, children |-> <<6, 7>>, text |-> ""],  \* 5
           [type |-> "(", srow |-> 0, erow |-> 0, parent |-> 5, children |-> <<>>, text |-> ""],  \* 6
           [type |-> ")", srow |-> 0, erow |-> 0, parent |-> 5, children |-> <<>>, text |-> ""],  \* 7
           [type |-> "type_annotation", srow |-> 0, erow |-> 0, parent |-> 2, children |-> <<9, 10>>, text |-> ""],  \* 8
           [type |-> ":", srow |-> 0, erow |-> 0, parent |-> 8, children |-> <<>>, text |-> ""],  \* 9
           [type |-> "predefined_type", srow |-> 0, erow |-> 0, parent |-> 8, children |-> <<>>, text |-> ""],  \* 10
           [type |-> "statement_block", srow |-> 0, erow |-> 0, parent |-> 2, children |-> <<12, 13, 17>>, text |-> ""],  \* 11
           [type |-> "{", srow |-> 0, erow |-> 0, parent |-> 11, children |-> <<>>, text |-> ""],  \* 12
           [type |-> "return_statement", srow |-> 0, erow |-> 0, parent |-> 11, children |-> <<14, 15, 16>>, text |-> ""],  \* 13
           [type |-> "return", srow |-> 0, erow |-> 0, parent |-> 13, children |-> <<>>, text |-> ""],  \* 14
           [type |-> "number", srow |-> 0, erow |-> 0, parent |-> 13, children |-> <<>>, text |-> ""],  \* 15
           [type |-> ";", srow |-> 0, erow |-> 0, parent |-> 13, children |-> <<>>, text |-> ""],  \* 16
           [type |-> "}", srow |-> 0, erow |-> 0, parent |-> 11, children |-> <<>>, text |-> ""] >>  \* 17

      BatteryTs_cols == (2 :> <<0, 9>>) @@ (3 :> <<0, 1>>) @@ (11 :> <<4, 9>>)

      BatteryJava_lines ==
        << <<"class A", " ", "{", " ", "int ", "foo", "()", "{", " ", "return 1;", " ", "}", " ", "}">> >>

      BatteryJava_tree ==
        << [type |-> "program", srow |-> 0, erow |-> 1, parent |-> 0, children |-> <<2>>, text |-> ""],  \* 1
           [type |-> "class_declaration", srow |-> 0, erow |-> 0, parent |-> 1, children |-> <<3, 4, 5>>, text |-> ""],  \* 2
           [type |-> "class", srow |-> 0, erow |-> 0, parent |-> 2, children |-> <<>>, text |-> ""],  \* 3
           [type |-> "identifier", srow |-> 0, erow |-> 0, parent |-> 2, children |-> <<>>, text |-> "A"],  \* 4
           [type |-> "class_body", srow |-> 0, erow |-> 0, parent |-> 2, children |-> <<6, 7, 20>>, text |-> ""],  \* 5
           [type |-> "{", srow |-> 0, erow |-> 0, parent |-> 5, children |-> <<>>, text |-> ""],  \* 6
           [type |-> "method_declaration", srow |-> 0, erow |-> 0, parent |-> 5, children |-> <<8, 9, 10, 13>>, text |-> ""],  \* 7
           [type |-> "integral_type", srow |-> 0, erow |-> 0, parent |-> 7, children |-> <<>>, text |-> ""],  \* 8
           [type |-> "identifier", srow |-> 0, erow |-> 0, parent |-> 7, children |-> <<>>, text |-> "foo"],  \* 9
           [type |-> "formal_parameters", srow |-> 0, erow |-> 0, parent |-> 7, children |-> <<11, 12>>, text |-> ""],  \* 10
           [type |-> "(", srow |-> 0, erow |-> 0, parent |-> 10, children |-> <<>>, text |-> ""],  \* 11
           [type |-> ")", srow |-> 0, erow |-> 0, parent |-> 10, children |-> <<>>, text |-> ""],  \* 12
           [type |-> "block", srow |-> 0, erow |-> 0, parent |-> 7, children |-> <<14, 15, 19>>, text |-> ""],  \* 13
           [type |-> "{", srow |-> 0, erow |-> 0, parent |-> 13, children |-> <<>>, text |-> ""],  \* 14
           [type |-> "return_statement", srow |-> 0, erow |-> 0, parent |-> 13, children |-> <<16, 17, 18>>, text |-> ""],  \* 15
           [type |-> "return", srow |-> 0, erow |-> 0, parent |-> 15, children |-> <<>>, text |-> ""],  \* 16
           [type |-> "decimal_integer_literal", srow |-> 0, erow |-> 0, parent |-> 15, children |-> <<>>, text |-> ""],  \* 17
           [type |-> ";", srow |-> 0, erow |-> 0, parent |-> 15, children |-> <<>>, text |-> ""],  \* 18
           [type |-> "}", srow |-> 0, erow |-> 0, parent |-> 13, children |-> <<>>, text |-> ""],  \* 19
           [type |-> "}", srow |-> 0, erow |-> 0, parent |-> 5, children |-> <<>>, text |-> ""] >>  \* 20

      BatteryJava_cols == (5 :> <<2, 14>>) @@ (7 :> <<4, 12>>) @@ (13 :> <<7, 12>>)

      BatteryCs_lines ==
        << <<"class A", " ", "{", " ", "int ", "Foo", "()", "{", " ", "return 1;", " ", "}", " ", "}">> >>

      BatteryCs_tree ==
        << [type |-> "compilation_unit", srow |-> 0, erow |-> 1, parent |-> 0, children |-> <<2>>, text |-> ""],  \* 1
           [type |-> "class_declaration", srow |-> 0, erow |-> 0, parent |-> 1, children |-> <<3, 4, 5>>, text |-> ""],  \* 2
           [type |-> "class", srow |-> 0, erow |-> 0, parent |-> 2, children |-> <<>>, text |-> ""],  \* 3
           [type |-> "identifier", srow |-> 0, erow |-> 0, parent |-> 2, children |-> <<>>, text |-> "A"],  \* 4
           [type |-> "declaration_list", srow |-> 0, erow |-> 0, parent |-> 2, children |-> <<6, 7, 20>>, text |-> ""],  \* 5
           [type |-> "{", srow |-> 0, erow |-> 0, parent |-> 5, children |-> <<>>, text |-> ""],  \* 6
           [type |-> "method_declaration", srow |-> 0, erow |-> 0, parent |-> 5, children |-> <<8, 9, 10, 13>>, text |-> ""],  \* 7
           [type |-> "predefined_type", srow |-> 0, erow |-> 0, parent |-> 7, children |-> <<>>, text |-> ""],  \* 8
           [type |-> "identifier", srow |-> 0, erow |-> 0, parent |-> 7, children |-> <<>>, text |-> "Foo"],  \* 9
           [type |-> "parameter_list", srow |-> 0, erow |-> 0, parent |-> 7, children |-> <<11, 12>>, text |-> ""],  \* 10
           [type |-> "(", srow |-> 0, erow |-> 0, parent |-> 10, children |-> <<>>, text |-> ""],  \* 11
           [type |-> ")", srow |-> 0, erow |-> 0, parent |-> 10, children |-> <<>>, text |-> ""],  \* 12
           [type |-> "block", srow |-> 0, erow |-> 0, parent |-> 7, children |-> <<14, 15, 19>>, text |-> ""],  \* 13
           [type |-> "{", srow |-> 0, erow |-> 0, parent |-> 13, children |-> <<>>, text |-> ""],  \* 14
           [type |-> "return_statement", srow |-> 0, erow |-> 0, parent |-> 13, children |-> <<16, 17, 18>>, text |-> ""],  \* 15
           [type |-> "return", srow |-> 0, erow |-> 0, parent |-> 15, children |-> <<>>, text |-> ""],  \* 16
           [type |-> "integer_literal", srow |-> 0, erow |-> 0, parent |-> 15, children |-> <<>>, text |-> ""],  \* 17
           [type |-> ";", srow |-> 0, erow |-> 0, parent |-> 15, children |-> <<>>, text |-> ""],  \* 18
           [type |-> "}", srow |-> 0, erow |-> 0, parent |-> 13, children |-> <<>>, text |-> ""],  \* 19
           [type |-> "}", srow |-> 0, erow |-> 0, parent |-> 5, children |-> <<>>, text |-> ""] >>  \* 20

      BatteryCs_cols == (5 :> <<2, 14>>) @@ (7 :> <<4, 12>>) @@ (13 :> <<7, 12>>)

      BatteryGo_lines ==
        << <<"package main">>,
           <<"func ", "foo", "() int", " ", "{", " ", "return 1", " ", "}">> >>

      BatteryGo_tree ==
        << [type |-> "source_file", srow |-> 0, erow |-> 2, parent |-> 0, children |-> <<2, 5>>, text |-> ""],  \* 1
           [type |-> "package_clause", srow |-> 0, erow |-> 0, parent |-> 1, children |-> <<3, 4>>, text |-> ""],  \* 2
           [type |-> "package", srow |-> 0, erow |-> 0, parent |-> 2, children |-> <<>>, text |-> ""],  \* 3
           [type |-> "package_identifier", srow |-> 0, erow |-> 0, parent |-> 2, children |-> <<>>, text |-> "main"],  \* 4
           [type |-> "function_declaration", srow |-> 1, erow |-> 1, parent |-> 1, children |-> <<6, 7, 8, 11, 12>>, text |-> ""],  \* 5
           [type |-> "func", srow |-> 1, erow |-> 1, parent |-> 5, children |-> <<>>, text |-> ""],  \* 6
           [type |-> "identifier", srow |-> 1, erow |-> 1, parent |-> 5, children |-> <<>>, text |-> "foo"],  \* 7
           [type |-> "parameter_list", srow |-> 1, erow |-> 1, parent |-> 5, children |-> <<9, 10>>, text |-> ""],  \* 8
           [type |-> "(", srow |-> 1, erow |-> 1, parent |-> 8, children |-> <<>>, text |-> ""],  \* 9
           [type |-> ")", srow |-> 1, erow |-> 1, parent |-> 8, children |-> <<>>, text |-> ""],  \* 10
           [type |-> "type_identifier", srow |-> 1, erow |-> 1, parent |-> 5, children |-> <<>>, text |-> "int"],  \* 11
           [type |-> "block", srow |-> 1, erow |-> 1, parent |-> 5, children |-> <<13, 14, 18>>, text |-> ""],  \* 12
           [type |-> "{", srow |-> 1, erow |-> 1, parent |-> 12, children |-> <<>>, text |-> ""],  \* 13
           [type |-> "return_statement", srow |-> 1, erow |-> 1, parent |-> 12, children |-> <<15, 16>>, text |-> ""],  \* 14
           [type |-> "return", srow |-> 1, erow |-> 1, parent |-> 14, children |-> <<>>, text |-> ""],  \* 15
           [type |-> "expression_list", srow |-> 1, erow |-> 1, parent |-> 14, children |-> <<17>>, text |-> ""],  \* 16
           [type |-> "int_literal", srow |-> 1, erow |-> 1, parent |-> 16, children |-> <<>>, text |-> ""],  \* 17
           [type |-> "}", srow |-> 1, erow |-> 1, parent |-> 12, children |-> <<>>, text |-> ""] >>  \* 18

      BatteryGo_cols == (12 :> <<4, 9>>)

      BatteryRb_lines ==
        << <<"def ", "foo">>,
           <<" ", " ", "1">>,
           <<"end">> >>

      BatteryRb_tree ==
        << [type |-> "program", srow |-> 0, erow |-> 3, parent |-> 0, children |-> <<2>>, text |-> ""],  \* 1
           [type |-> "method", srow |-> 0, erow |-> 2, parent |-> 1, children |-> <<3, 4, 5, 7>>, text |-> ""],  \* 2
           [type |-> "def", srow |-> 0, erow |-> 0, parent |-> 2, children |-> <<>>, text |-> ""],  \* 3
           [type |-> "identifier", srow |-> 0, erow |-> 0, parent |-> 2, children |-> <<>>, text |-> "foo"],  \* 4
           [type |-> "body_statement", srow |-> 1, erow |-> 1, parent |-> 2, children |-> <<6>>, text |-> ""],  \* 5
           [type |-> "integer", srow |-> 1, erow |-> 1, parent |-> 5, children |-> <<>>, text |-> ""],  \* 6
           [type |-> "end", srow |-> 2, erow |-> 2, parent |-> 2, children |-> <<>>, text |-> ""] >>  \* 7

      BatteryRb_cols == <<>>

      BatteryKt_lines ==
        << <<"fun ", "foo", "(): Int", " ", "{", " ", "return 1", " ", "}">> >>

      BatteryKt_tree ==
        << [type |-> "source_file", srow |-> 0, erow |-> 1, parent |-> 0, children |-> <<2>>, text |-> ""],  \* 1
           [type |-> "function_declaration", srow |-> 0, erow |-> 0, parent |-> 1, children |-> <<3, 4, 5, 8, 9, 11>>, text |-> ""],  \* 2
           [type |-> "fun", srow |-> 0, erow |-> 0, parent |-> 2, children |-> <<>>, text |-> ""],  \* 3
           [type |-> "simple_identifier", srow |-> 0, erow |-> 0, parent |-> 2, children |-> <<>>, text |-> "foo"],  \* 4
           [type |-> "function_value_parameters", srow |-> 0, erow |-> 0, parent |-> 2, children |-> <<6, 7>>, text |-> ""],  \* 5
           [type |-> "(", srow |-> 0, erow |-> 0, parent |-> 5, children |-> <<>>, text |-> ""],  \* 6
           [type |-> ")", srow |-> 0, erow |-> 0, parent |-> 5, children |-> <<>>, text |-> ""],  \* 7
           [type |-> ":", srow |-> 0, erow |-> 0, parent |-> 2, children |-> <<>>, text |-> ""],  \* 8
           [type |-> "user_type", srow |-> 0, erow |-> 0, parent |-> 2, children |-> <<10>>, text |-> ""],  \* 9
           [type |-> "type_identifier", srow |-> 0, erow |-> 0, parent |-> 9, children |-> <<>>, text |-> "Int"],  \* 10
           [type |-> "function_body", srow |-> 0, erow |-> 0, parent |-> 2, children |-> <<12, 13, 17>>, text |-> ""],  \* 11
           [type |-> "{", srow |-> 0, erow |-> 0, parent |-> 11, children |-> <<>>, text |-> ""],  \* 12
           [type |-> "statements", srow |-> 0, erow |-> 0, parent |-> 11, children |-> <<14>>, text |-> ""],  \* 13
           [type |-> "jump_expression", srow |-> 0, erow |-> 0, parent |-> 13, children |-> <<15, 16>>, text |-> ""],  \* 14
           [type |-> "return", srow |-> 0, erow |-> 0, parent |-> 14, children |-> <<>>, text |-> ""],  \* 15
           [type |-> "integer_literal", srow |-> 0, erow |-> 0, parent |-> 14, children |-> <<>>, text |-> ""],  \* 16
           [type |-> "}", srow |-> 0, erow |-> 0, parent |-> 11, children |-> <<>>, text |-> ""] >>  \* 17

      BatteryKt_cols == (11 :> <<4, 9>>)

      BatteryPy == Program("PY_LANGUAGE", BatteryPy_lines, BatteryPy_tree, BatteryPy_cols)
      BatteryH == Program("CPP_LANGUAGE", BatteryH_lines, BatteryH_tree, BatteryH_cols)
      BatteryCpp == Program("CPP_LANGUAGE", BatteryCpp_lines, BatteryCpp_tree, BatteryCpp_cols)
      BatteryC == Program("CPP_LANGUAGE", BatteryC_lines, BatteryC_tree, BatteryC_cols)
      BatteryJs == Program("JS_LANGUAGE", BatteryJs_lines, BatteryJs_tree, BatteryJs_cols)
      BatteryMjs == Program("JS_LANGUAGE", BatteryMjs_lines, BatteryMjs_tree, BatteryMjs_cols)
      BatteryTs == Program("TYPESCRIPT_LANGUAGE", BatteryTs_lines, BatteryTs_tree, BatteryTs_cols)
      BatteryJava == Program("JAVA_LANGUAGE", BatteryJava_lines, BatteryJava_tree, BatteryJava_cols)
      BatteryCs == Program("CSHARP_LANGUAGE", BatteryCs_lines, BatteryCs_tree, BatteryCs_cols)
      BatteryGo == Program("GO_LANGUAGE", BatteryGo_lines, BatteryGo_tree, BatteryGo_cols)
      BatteryRb == Program("RUBY_LANGUAGE", BatteryRb_lines, BatteryRb_tree, BatteryRb_cols)
      BatteryKt == Program("KOTLIN_LANGUAGE", BatteryKt_lines, BatteryKt_tree, BatteryKt_cols)
      \* app.php: no grammar is loaded for it.
      BatteryPhp ==
        [grammar |-> "", source |-> FileText(<< <<"<?php ", "function ", "foo", "() ", "{", " ",
                                                  "return 1;", " ", "}">> >>),
         tree |-> <<>>]
  IN
  { Case(<<"example", ".", "py">>, BatteryPy, 1, "foo"),
    Case(<<"test", ".", "h">>, BatteryH, 1, "foo"),
    Case(<<"test", ".", "hpp">>, BatteryH, 1, "foo"),
    Case(<<"test", ".", "cpp">>, BatteryCpp, 1, "foo"),
    Case(<<"test", ".", "c">>, BatteryC, 1, "foo"),
    Case(<<"test", ".", "cc">>, BatteryC, 1, "foo"),
    Case(<<"test", ".", "cxx">>, BatteryC, 1, "foo"),
    Case(<<"app", ".", "js">>, BatteryJs, 1, "foo"),
    Case(<<"mod", ".", "mjs">>, BatteryMjs, 1, "foo"),
    Case(<<"mod", ".", "cjs">>, BatteryJs, 1, "foo"),
    Case(<<"Main", ".", "java">>, BatteryJava, 1, "foo"),
    Case(<<"Program", ".", "cs">>, BatteryCs, 1, "Foo"),
    Case(<<"types", ".", "ts">>, BatteryTs, 1, "foo"),
    Case(<<"main", ".", "go">>, BatteryGo, 2, "foo"),
    Case(<<"script", ".", "rb">>, BatteryRb, 1, "foo"),
    Case(<<"main", ".", "kt">>, BatteryKt, 1, "foo"),
    Case(<<"app", ".", "php">>, BatteryPhp, 1, "foo") }

\* tests/test_extract_line.py: a module with a statement outside any
\* function, and a function whose condition spans several lines; and a file
\* of one statement that does not end with a newline, whose root is
\* single-line.
LinePrograms ==
  LET
      ModuleLevel_lines ==
        << <<"import os">>,
           <<>>,
           <<"VALUE = 123">>,
           <<>>,
           <<"def f():">>,
           <<" ", " ", " ", " ", "return 1">> >>

      ModuleLevel_tree ==
        << [type |-> "module", srow |-> 0, erow |-> 6, parent |-> 0, children |-> <<2, 6, 11>>, text |-> ""],  \* 1
           [type |-> "import_statement", srow |-> 0, erow |-> 0, parent |-> 1, children |-> <<3, 4>>, text |-> ""],  \* 2
           [type |-> "import", srow |-> 0, erow |-> 0, parent |-> 2, children |-> <<>>, text |-> ""],  \* 3
           [type |-> "dotted_name", srow |-> 0, erow |-> 0, parent |-> 2, children |-> <<5>>, text |-> ""],  \* 4
           [type |-> "identifier", srow |-> 0, erow |-> 0, parent |-> 4, children |-> <<>>, text |-> "os"],  \* 5
           [type |-> "expression_statement", srow |-> 2, erow |-> 2, parent |-> 1, children |-> <<7>>, text |-> ""],  \* 6
           [type |-> "assignment", srow |-> 2, erow |-> 2, parent |-> 6, children |-> <<8, 9, 10>>, text |-> ""],  \* 7
           [type |-> "identifier", srow |-> 2, erow |-> 2, parent |-> 7, children |-> <<>>, text |-> "VALUE"],  \* 8
           [type |-> "=", srow |-> 2, erow |-> 2, parent |-> 7, children |-> <<>>, text |-> ""],  \* 9
           [type |-> "integer", srow |-> 2, erow |-> 2, parent |-> 7, children |-> <<>>, text |-> ""],  \* 10
           [type |-> "function_definition", srow |-> 4, erow |-> 5, parent |-> 1, children |-> <<12, 13, 14, 17, 18>>, text |-> ""],  \* 11
           [type |-> "def", srow |-> 4, erow |-> 4, parent |-> 11, children |-> <<>>, text |-> ""],  \* 12
           [type |-> "identifier", srow |-> 4, erow |-> 4, parent |-> 11, children |-> <<>>, text |-> "f"],  \* 13
           [type |-> "parameters", srow |-> 4, erow |-> 4, parent |-> 11, children |-> <<15, 16>>, text |-> ""],  \* 14
           [type |-> "(", srow |-> 4, erow |-> 4, parent |-> 14, children |-> <<>>, text |-> ""],  \* 15
           [type |-> ")", srow |-> 4, erow |-> 4, parent |-> 14, children |-> <<>>, text |-> ""],  \* 16
           [type |-> ":", srow |-> 4, erow |-> 4, parent |-> 11, children |-> <<>>, text |-> ""],  \* 17
           [type |-> "block", srow |-> 5, erow |-> 5, parent |-> 11, children |-> <<19>>, text |-> ""],  \* 18
           [type |-> "return_statement", srow |-> 5, erow |-> 5, parent |-> 18, children |-> <<20, 21>>, text |-> ""],  \* 19
           [type |-> "return", srow |-> 5, erow |-> 5, parent |-> 19, children |-> <<>>, text |-> ""],  \* 20
           [type |-> "integer", srow |-> 5, erow |-> 5, parent |-> 19, children |-> <<>>, text |-> ""] >>  \* 21

      ModuleLevel_cols == <<>>

      MultilineIf_lines ==
        << <<"def f(x):">>,
           <<" ", " ", " ", " ", "if ", "(">>,
           <<" ", " ", " ", " ", " ", " ", " ", " ", "x > 10">>,
           <<" ", " ", " ", " ", " ", " ", " ", " ", "and x % 2 == 0">>,
           <<" ", " ", " ", " ", ")", ":">>,
           <<" ", " ", " ", " ", " ", " ", " ", " ", "return 1">>,
           <<" ", " ", " ", " ", "return 0">> >>

      MultilineIf_tree ==
        << [type |-> "module", srow |-> 0, erow |-> 7, parent |-> 0, children |-> <<2>>, text |-> ""],  \* 1
           [type |-> "function_definition", srow |-> 0, erow |-> 6, parent |-> 1, children |-> <<3, 4, 5, 9, 10>>, text |-> ""],  \* 2
           [type |-> "def", srow |-> 0, erow |-> 0, parent |-> 2, children |-> <<>>, text |-> ""],  \* 3
           [type |-> "identifier", srow |-> 0, erow |-> 0, parent |-> 2, children |-> <<>>, text |-> "f"],  \* 4
           [type |-> "parameters", srow |-> 0, erow |-> 0, parent |-> 2, children |-> <<6, 7, 8>>, text |-> ""],  \* 5
           [type |-> "(", srow |-> 0, erow |-> 0, parent |-> 5, children |-> <<>>, text |-> ""],  \* 6
           [type |-> "identifier", srow |-> 0, erow |-> 0, parent |-> 5, children |-> <<>>, text |-> "x"],  \* 7
           [type |-> ")", srow |-> 0, erow |-> 0, parent |-> 5, children |-> <<>>, text |-> ""],  \* 8
           [type |-> ":", srow |-> 0, erow |-> 0, parent |-> 2, children |-> <<>>, text |-> ""],  \* 9
           [type |-> "block", srow |-> 1, erow |-> 6, parent |-> 2, children |-> <<11, 34>>, text |-> ""],  \* 10
           [type |-> "if_statement", srow |-> 1, erow |-> 5, parent |-> 10, children |-> <<12, 13, 29, 30>>, text |-> ""],  \* 11
           [type |-> "if", srow |-> 1, erow |-> 1, parent |-> 11, children |-> <<>>, text |-> ""],  \* 12
           [type |-> "parenthesized_expression", srow |-> 1, erow |-> 4, parent |-> 11, children |-> <<14, 15, 28>>, text |-> ""],  \* 13
           [type |-> "(", srow |-> 1, erow |-> 1, parent |-> 13, children |-> <<>>, text |-> ""],  \* 14
           [type |-> "boolean_operator", srow |-> 2, erow |-> 3, parent |-> 13, children |-> <<16, 20, 21>>, text |-> ""],  \* 15
           [type |-> "comparison_operator", srow |-> 2, erow |-> 2, parent |-> 15, children |-> <<17, 18, 19>>, text |-> ""],  \* 16
           [type |-> "identifier", srow |-> 2, erow |-> 2, parent |-> 16, children |-> <<>>, text |-> "x"],  \* 17
           [type |-> ">", srow |-> 2, erow |-> 2, parent |-> 16, children |-> <<>>, text |-> ""],  \* 18
           [type |-> "integer", srow |-> 2, erow |-> 2, parent |-> 16, children |-> <<>>, text |-> ""],  \* 19
           [type |-> "and", srow |-> 3, erow |-> 3, parent |-> 15, children |-> <<>>, text |-> ""],  \* 20
           [type |-> "comparison_operator", srow |-> 3, erow |-> 3, parent |-> 15, children |-> <<22, 26, 27>>, text |-> ""],  \* 21
           [type |-> "binary_operator", srow |-> 3, erow |-> 3, parent |-> 21, children |-> <<23, 24, 25>>, text |-> ""],  \* 22
           [type |-> "identifier", srow |-> 3, erow |-> 3, parent |-> 22, children |-> <<>>, text |-> "x"],  \* 23
           [type |-> "%", srow |-> 3, erow |-> 3, parent |-> 22, children |-> <<>>, text |-> ""],  \* 24
           [type |-> "integer", srow |-> 3, erow |-> 3, parent |-> 22, children |-> <<>>, text |-> ""],  \* 25
           [type |-> "==", srow |-> 3, erow |-> 3, parent |-> 21, children |-> <<>>, text |-> ""],  \* 26
           [type |-> "integer", srow |-> 3, erow |-> 3, parent |-> 21, children |-> <<>>, text |-> ""],  \* 27
           [type |-> ")", srow |-> 4, erow |-> 4, parent |-> 13, children |-> <<>>, text |-> ""],  \* 28
           [type |-> ":", srow |-> 4, erow |-> 4, parent |-> 11, children |-> <<>>, text |-> ""],  \* 29
           [type |-> "block", srow |-> 5, erow |-> 5, parent |-> 11, children |-> <<31>>, text |-> ""],  \* 30
           [type |-> "return_statement", srow |-> 5, erow |-> 5, parent |-> 30, children |-> <<32, 33>>, text |-> ""],  \* 31
           [type |-> "return", srow |-> 5, erow |-> 5, parent |-> 31, children |-> <<>>, text |-> ""],  \* 32
           [type |-> "integer", srow |-> 5, erow |-> 5, parent |-> 31, children |-> <<>>, text |-> ""],  \* 33
           [type |-> "return_statement", srow |-> 6, erow |-> 6, parent |-> 10, children |-> <<35, 36>>, text |-> ""],  \* 34
           [type |-> "return", srow |-> 6, erow |-> 6, parent |-> 34, children |-> <<>>, text |-> ""],  \* 35
           [type |-> "integer", srow |-> 6, erow |-> 6, parent |-> 34, children |-> <<>>, text |-> ""] >>  \* 36

      MultilineIf_cols == (13 :> <<5, 5>>)

      NoNewline_lines ==
        << <<"VALUE = 123">> >>

      NoNewline_tree ==
        << [type |-> "module", srow |-> 0, erow |-> 0, parent |-> 0, children |-> <<2>>, text |-> ""],  \* 1
           [type |-> "expression_statement", srow |-> 0, erow |-> 0, parent |-> 1, children |-> <<3>>, text |-> ""],  \* 2
           [type |-> "assignment", srow |-> 0, erow |-> 0, parent |-> 2, children |-> <<4, 5, 6>>, text |-> ""],  \* 3
           [type |-> "identifier", srow |-> 0, erow |-> 0, parent |-> 3, children |-> <<>>, text |-> "VALUE"],  \* 4
           [type |-> "=", srow |-> 0, erow |-> 0, parent |-> 3, children |-> <<>>, text |-> ""],  \* 5
           [type |-> "integer", srow |-> 0, erow |-> 0, parent |-> 3, children |-> <<>>, text |-> ""] >>  \* 6

      NoNewline_cols == <<>>

  IN
  { Program("PY_LANGUAGE", ModuleLevel_lines, ModuleLevel_tree, ModuleLevel_cols),
    Program("PY_LANGUAGE", MultilineIf_lines, MultilineIf_tree, MultilineIf_cols),
    [grammar |-> "PY_LANGUAGE", source |-> JoinLines(NoNewline_lines),
     tree |-> WithCols(NoNewline_lines, NoNewline_tree, NoNewline_cols)] }

Programs ==
  {ScenarioA, PyClass, PyNested, PyElse, PyStr, JavaClass, GoFunc, BlankFile} \cup Chains
  \cup {c.prog : c \in {k \in CASES : k.prog.grammar # ""}}
  \cup LinePrograms

\* parser.parse(source_bytes) with the grammar `lang': the tree of the text.
Parse(lang, text) == (CHOOSE p \in Programs : p.grammar = lang /\ p.source = text).tree

NumLines(prog) == Len(splitlines(prog.source))

\* compress.py, ensure_control_headers_for_relevant_bodies: the body of a
\* control node is its first block-like child, else the earliest child that
\* ends below the node's first row; 0 when there is none.
ControlBody(T, n, nodeset) ==
  LET kids == T[n].children
      blocks_ == {i \in DOMAIN kids : is_block_like(T, kids[i], nodeset)}
      cands == {i \in DOMAIN kids : T[kids[i]].erow > T[n].srow}
      pick == CHOOSE i \in cands :
                \A j \in cands :
                  \/ T[kids[i]].srow < T[kids[j]].srow
                  \/ T[kids[i]].srow = T[kids[j]].srow /\ i <= j
  IN IF blocks_ # {} THEN kids[SetMin(blocks_)]
     ELSE IF cands # {} THEN kids[pick]
     ELSE 0

\* The walk of the post-pass: the stack is popped from its end, so a node is
\* visited before its children and the children from the last to the first;
\* a header row added for one node is seen by the nodes visited after it.
EnsureStep(T, n, nodeset, relevant) ==
  LET body == ControlBody(T, n, nodeset) IN
  IF /\ T[n].type \in ControlSet(nodeset)
     /\ body # 0
     /\ NodeLines(T, body) \cap relevant # {}
  THEN relevant \cup {T[n].srow}
  ELSE relevant

RECURSIVE EnsureWalk(_, _, _, _)
RECURSIVE EnsureWalkKids(_, _, _, _, _)
EnsureWalk(T, n, nodeset, relevant) ==
  EnsureWalkKids(T, T[n].children, Len(T[n].children), nodeset,
                 EnsureStep(T, n, nodeset, relevant))

EnsureWalkKids(T, kids, k, nodeset, relevant) ==
  IF k = 0 THEN relevant
  ELSE LET after == EnsureWalk(T, kids[k], nodeset, relevant) IN
       IF after = relevant THEN EnsureWalkKids(T, kids, k - 1, nodeset, relevant)
       ELSE EnsureWalkKids(T, kids, k - 1, nodeset, after)

ensure_control_headers_for_relevant_bodies(T, root, nodeset, relevant) ==
  EnsureWalk(T, root, nodeset, relevant)

\* ------------------------------------------------------- the state machine
VARIABLES
  \* the arguments of the call
  mode,                      \* "compress" | "extract": the entry point called
  source_code, filename, line_number,
  max_backward_depth, preserve_inline_comments, include_control_headers,
  \* the locals of the call
  pc, lines, lang_key, tree, func_node, target_node,
  seed_reads, seed_writes, relevant_lines, nodes_to_visit,
  frontier_reads, frontier_writes, seen_reads, seen_writes, depth,
  blk,                       \* index in nodes_to_visit of the region scanned next
  new_reads, new_writes, any_match,
  matched,                   \* history: the key statements matched so far
  comment_only_lines, blocks, header_lines, cursor, out,
  result,                    \* the returned {"text", "meta"}
  exception,                 \* the exception that escaped the call, "" if none
  \* the threads of the hosting process: the call above is the one that is
  \* running, the locals of the other call are parked
  threads

vArgs == <<mode, source_code, filename, line_number, max_backward_depth,
           preserve_inline_comments, include_control_headers>>
vParse == <<lines, lang_key, tree>>
vLocate == <<func_node, target_node>>
vSeed == <<seed_reads, seed_writes, nodes_to_visit>>
vFrontier == <<frontier_reads, frontier_writes, seen_reads, seen_writes, depth>>
vPass == <<blk, new_reads, new_writes, any_match>>
vOut == <<comment_only_lines, blocks, header_lines, cursor, out>>
vEnd == <<result, exception>>
vEngine == <<vArgs, pc, vParse, vLocate, vSeed, relevant_lines, matched, vFrontier, vPass,
            vOut, vEnd, threads>>

\* sast_client.py, SastPipelineDDClient.upload_report: the enrichment of the
\* imported findings.
VARIABLES
  upload_args,               \* what the call was given: trim_path and repo_url, set or not
  upload_pc,                 \* the calling thread: "idle" | "submit" | "collect" | "returned"
  findings,                  \* per finding, the task _process_one(f) of the pool
  server,                    \* DefectDojo: the findings deleted, the findings given the link
  collected,                 \* the futures whose result was added
  enriched                   \* the running sum of the results

vUpload == <<upload_args, upload_pc, findings, server, collected, enriched>>

\* The state of one expand_analyzers call (config_utils.py 89-175).
VARIABLES
  analyzer,       \* the parent analyzer of the loop at line 97
  allowed_langs,  \* <<>> for None, <<S>> for the set S
  expand_pc,
  cfg_map,
  root_cache,
  groups,         \* the dict of line 151, in insertion order
  emitted,        \* groups[1 .. emitted] have been through the loop at 156
  expand_out      \* the list out

vExpand == <<analyzer, allowed_langs, expand_pc, cfg_map, root_cache, groups, emitted,
             expand_out>>

vars == <<vEngine, vUpload, vExpand>>

NoResult == [text |-> <<>>, meta |-> <<>>]

nodeset == LANG_NODESETS[lang_key]
line_comment == nodeset.line_comment_prefix
f_start == tree[func_node].srow
f_end == tree[func_node].erow
current_ids == (frontier_reads \ seen_reads) \cup (frontier_writes \ seen_writes)

\* The file names an invocation is given.
DefaultDepth == 2
DepthRange == -1 .. MaxDepth

Call(m, prog, name, l, d, inl, hdr) ==
  [mode |-> m, source_code |-> prog.source, filename |-> name, line_number |-> l,
   max_backward_depth |-> d, preserve_inline_comments |-> inl,
   include_control_headers |-> hdr]

\* compress, every option, under the natural file name of each program.
OptionCalls(prog, name) ==
  {Call("compress", prog, name, l, d, inl, hdr) :
     l \in 0 .. NumLines(prog) + 1, d \in DepthRange, inl \in BOOLEAN, hdr \in BOOLEAN}

\* Default options, both entry points.
DefaultCalls(prog, names) ==
  {Call(m, prog, name, l, DefaultDepth, TRUE, TRUE) :
     m \in {"compress", "extract"}, name \in names, l \in 0 .. NumLines(prog) + 1}

ChainCalls ==
  {Call("compress", prog, <<"chain", ".", "c">>, l, d, TRUE, TRUE) :
     prog \in Chains, l \in 1 .. ChainLen + 2, d \in 0 .. MaxDepth}

\* tests/test_extract.py, test_extract_across_languages.
BatteryCalls ==
  {Call("extract", c.prog, c.filename, c.line, DefaultDepth, TRUE, TRUE) : c \in CASES}

\* tests/test_extract_line.py: extract at every line of the file, and at
\* the lines next to it.
LineCallsOf(prog, name) ==
  {Call("extract", prog, name, l, DefaultDepth, TRUE, TRUE) : l \in 0 .. NumLines(prog) + 1}

LineCalls ==
  UNION {LineCallsOf(prog, <<"mod", ".", "py">>) : prog \in LinePrograms}
  \cup LineCallsOf(BlankFile, <<"blank", ".", "cc">>)

EmptySource == [grammar |-> "", source |-> <<>>, tree |-> <<>>]

UnsupportedNames ==
  { <<"example", ".", "php">>, <<"EXAMPLE", ".", "PHP">>, <<"notes", ".", "txt">>,
    <<"Makefile">>, <<".", "cpp">>, <<"example", ".">> }

Calls ==
  OptionCalls(ScenarioA, <<"example", ".", "cpp">>)
  \cup OptionCalls(PyClass, <<"mod", ".", "py">>)
  \cup OptionCalls(PyNested, <<"nested", ".", "py">>)
  \cup OptionCalls(PyElse, <<"branch", ".", "py">>)
  \cup OptionCalls(PyStr, <<"text", ".", "py">>)
  \cup OptionCalls(JavaClass, <<"A", ".", "java">>)
  \cup OptionCalls(GoFunc, <<"main", ".", "go">>)
  \cup OptionCalls(BlankFile, <<"blank", ".", "cc">>)
  \cup ChainCalls
  \cup DefaultCalls(ScenarioA, { <<"example", ".", "cpp">>, <<"EXAMPLE", ".", "CPP">>,
                                 <<"lib", ".", "v2", ".", "h">> } \cup UnsupportedNames)
  \cup DefaultCalls(PyClass, { <<"mod", ".", "py">>, <<"mod", ".", "PY">> })
  \cup DefaultCalls(JavaClass, { <<"A", ".", "java">>, <<"A", ".", "Java">> })
  \cup DefaultCalls(GoFunc, { <<"main", ".", "go">>, <<"main", ".", "GO">> })
  \cup DefaultCalls(EmptySource, { <<"example", ".", "cpp">>, <<"notes", ".", "txt">> })
  \cup BatteryCalls
  \cup LineCalls

\* The locals of a call at its entry.
Entry(c) ==
  [mode |-> c.mode, source_code |-> c.source_code, filename |-> c.filename,
   line_number |-> c.line_number, max_backward_depth |-> c.max_backward_depth,
   preserve_inline_comments |-> c.preserve_inline_comments,
   include_control_headers |-> c.include_control_headers,
   pc |-> "guards", lines |-> <<>>, lang_key |-> "", tree |-> <<>>,
   func_node |-> 0, target_node |-> 0, seed_reads |-> {}, seed_writes |-> {},
   relevant_lines |-> {}, nodes_to_visit |-> <<>>,
   frontier_reads |-> {}, frontier_writes |-> {}, seen_reads |-> {}, seen_writes |-> {},
   depth |-> 0, blk |-> 0, new_reads |-> {}, new_writes |-> {}, any_match |-> FALSE,
   matched |-> {}, comment_only_lines |-> {}, blocks |-> <<>>, header_lines |-> <<>>,
   cursor |-> 0, out |-> <<>>, result |-> NoResult, exception |-> ""]

\* The frame of the running call.
Frame ==
  [mode |-> mode, source_code |-> source_code, filename |-> filename,
   line_number |-> line_number, max_backward_depth |-> max_backward_depth,
   preserve_inline_comments |-> preserve_inline_comments,
   include_control_headers |-> include_control_headers,
   pc |-> pc, lines |-> lines, lang_key |-> lang_key, tree |-> tree,
   func_node |-> func_node, target_node |-> target_node,
   seed_reads |-> seed_reads, seed_writes |-> seed_writes,
   relevant_lines |-> relevant_lines, nodes_to_visit |-> nodes_to_visit,
   frontier_reads |-> frontier_reads, frontier_writes |-> frontier_writes,
   seen_reads |-> seen_reads, seen_writes |-> seen_writes,
   depth |-> depth, blk |-> blk, new_reads |-> new_reads, new_writes |-> new_writes,
   any_match |-> any_match, matched |-> matched,
   comment_only_lines |-> comment_only_lines, blocks |-> blocks,
   header_lines |-> header_lines, cursor |-> cursor, out |-> out,
   result |-> result, exception |-> exception]

\* The running call has the frame st.
Running(st) ==
  /\ mode = st.mode /\ source_code = st.source_code /\ filename = st.filename
  /\ line_number = st.line_number /\ max_backward_depth = st.max_backward_depth /\ preserve_inline_comments = st.preserve_inline_comments
  /\ include_control_headers = st.include_control_headers /\ pc = st.pc /\ lines = st.lines
  /\ lang_key = st.lang_key /\ tree = st.tree /\ func_node = st.func_node
  /\ target_node = st.target_node /\ seed_reads = st.seed_reads /\ seed_writes = st.seed_writes
  /\ relevant_lines = st.relevant_lines /\ nodes_to_visit = st.nodes_to_visit /\ frontier_reads = st.frontier_reads
  /\ frontier_writes = st.frontier_writes /\ seen_reads = st.seen_reads /\ seen_writes = st.seen_writes
  /\ depth = st.depth /\ blk = st.blk /\ new_reads = st.new_reads
  /\ new_writes = st.new_writes /\ any_match = st.any_match /\ matched = st.matched
  /\ comment_only_lines = st.comment_only_lines /\ blocks = st.blocks /\ header_lines = st.header_lines
  /\ cursor = st.cursor /\ out = st.out /\ result = st.result
  /\ exception = st.exception

\* The frame st is the running call's from the next state on.
Resume(st) ==
  /\ mode' = st.mode /\ source_code' = st.source_code /\ filename' = st.filename
  /\ line_number' = st.line_number /\ max_backward_depth' = st.max_backward_depth /\ preserve_inline_comments' = st.preserve_inline_comments
  /\ include_control_headers' = st.include_control_headers /\ pc' = st.pc /\ lines' = st.lines
  /\ lang_key' = st.lang_key /\ tree' = st.tree /\ func_node' = st.func_node
  /\ target_node' = st.target_node /\ seed_reads' = st.seed_reads /\ seed_writes' = st.seed_writes
  /\ relevant_lines' = st.relevant_lines /\ nodes_to_visit' = st.nodes_to_visit /\ frontier_reads' = st.frontier_reads
  /\ frontier_writes' = st.frontier_writes /\ seen_reads' = st.seen_reads /\ seen_writes' = st.seen_writes
  /\ depth' = st.depth /\ blk' = st.blk /\ new_reads' = st.new_reads
  /\ new_writes' = st.new_writes /\ any_match' = st.any_match /\ matched' = st.matched
  /\ comment_only_lines' = st.comment_only_lines /\ blocks' = st.blocks /\ header_lines' = st.header_lines
  /\ cursor' = st.cursor /\ out' = st.out /\ result' = st.result
  /\ exception' = st.exception

\* No other call is in the process.
SingleThread == [phase |-> "single"]

\* No upload is in progress.
NoUpload ==
  /\ upload_args = <<>> /\ upload_pc = "idle" /\ findings = <<>>
  /\ server = <<>> /\ collected = {} /\ enriched = 0

\* No analyzer list is being expanded.
NoExpand ==
  /\ analyzer = <<>> /\ allowed_langs = <<>> /\ expand_pc = "idle" /\ cfg_map = <<>>
  /\ root_cache = <<>> /\ groups = <<>> /\ emitted = 0 /\ expand_out = <<>>

Init ==
  /\ \E c \in Calls : Running(Entry(c))
  /\ threads = SingleThread
  /\ NoUpload
  /\ NoExpand

Return(text, meta) ==
  /\ result' = [text |-> text, meta |-> meta]
  /\ pc' = "done"
  /\ exception' = exception
  /\ UNCHANGED <<threads, vUpload, vExpand>>

Raise(e) ==
  /\ exception' = e
  /\ pc' = "raised"
  /\ result' = result
  /\ UNCHANGED <<threads, vUpload, vExpand>>

Continue(next) ==
  /\ pc' = next
  /\ UNCHANGED <<vEnd, threads, vUpload, vExpand>>

InvalidLineText == <<"//", " Invalid line number (must be 1-based and > 0).">>
EmptySourceText == <<"//", " Empty source.">>
BeyondEndText == <<"//", " Target line beyond end of file.">>

\* The guards without the empty-source test.
Guards_NoEmptyTest ==
  /\ pc = "guards" /\ mode = "compress"
  /\ IF line_number <= 0
     THEN /\ Return(InvalidLineText, [target_line |-> line_number])
          /\ lines' = lines
     ELSE /\ lines' = splitlines(source_code)
          /\ IF line_number > Len(lines')
             THEN Return(BeyondEndText, [target_line |-> line_number])
             ELSE Continue("detect")
  /\ UNCHANGED <<vArgs, lang_key, tree, vLocate, vSeed, relevant_lines, matched,
                 vFrontier, vPass, vOut>>

\* compress.py 37-44: the guards.
Guards ==
  /\ pc = "guards" /\ mode = "compress"
  /\ IF line_number <= 0
     THEN /\ Return(InvalidLineText, [target_line |-> line_number])
          /\ lines' = lines
     ELSE /\ lines' = splitlines(source_code)
          /\ IF lines' = <<>>
             THEN Return(EmptySourceText, [target_line |-> line_number])
             ELSE IF line_number > Len(lines')
             THEN Return(BeyondEndText, [target_line |-> line_number])
             ELSE Continue("detect")
  /\ UNCHANGED <<vArgs, lang_key, tree, vLocate, vSeed, relevant_lines, matched,
                 vFrontier, vPass, vOut>>

\* extract.py 13-16: the guards.
ExtractGuards ==
  /\ pc = "guards" /\ mode = "extract"
  /\ IF line_number <= 0
     THEN Return(InvalidLineText, [target_line |-> line_number])
     ELSE IF source_code = <<>>
     THEN Return(EmptySourceText, [target_line |-> line_number])
     ELSE Continue("detect")
  /\ UNCHANGED <<vArgs, vParse, vLocate, vSeed, relevant_lines, matched, vFrontier,
                 vPass, vOut>>

\* compress.py 48-55, extract.py 18-27: language and parser.
DetectAndParse ==
  /\ pc = "detect"
  /\ LET d == detect_language(filename) IN
     IF ~d.ok
     THEN /\ Return(<<"//", " ">> \o d.error, [target_line |-> line_number])
          /\ UNCHANGED <<lang_key, tree>>
     ELSE /\ lang_key' = d.lang_key
          /\ tree' = Parse(d.lang, source_code)
          /\ Continue(IF mode = "compress" THEN "find_function" ELSE "enclosing")
  /\ UNCHANGED <<vArgs, lines, vLocate, vSeed, relevant_lines, matched, vFrontier, vPass,
                 vOut>>

\* compress.py 84-86
FindFunction ==
  /\ pc = "find_function"
  /\ func_node' = find_function_node(tree, 1, nodeset, line_number)
  /\ IF func_node' = 0
     THEN Return(<<line_comment, " Function not found.">>,
                 [language |-> lang_key, target_line |-> line_number])
     ELSE Continue("find_target")
  /\ UNCHANGED <<vArgs, vParse, target_node, vSeed, relevant_lines, matched, vFrontier,
                 vPass, vOut>>

\* compress.py 88-94
FindTarget ==
  /\ pc = "find_target"
  /\ target_node' = find_target_node(tree, func_node, line_number)
  /\ IF target_node' = 0
     THEN Return(<<line_comment, " Target line not found in function.">>,
                 [language |-> lang_key, function_lines |-> <<f_start + 1, f_end + 1>>,
                  target_line |-> line_number])
     ELSE Continue("seed")
  /\ UNCHANGED <<vArgs, vParse, func_node, vSeed, relevant_lines, matched, vFrontier,
                 vPass, vOut>>

\* The seed step with the frontier left empty instead of holding the seed.
Seed_EmptyFrontier ==
  /\ pc = "seed"
  /\ IF SplitRaisesKeyError(tree, target_node, nodeset)
     THEN /\ Raise("KeyError")
          /\ UNCHANGED <<vSeed, relevant_lines, frontier_reads, frontier_writes>>
     ELSE LET seed == split_reads_writes(tree, target_node, lang_key, nodeset) IN
          /\ seed_reads' = seed.reads
          /\ seed_writes' = seed.writes
          /\ relevant_lines' = NodeLines(tree, target_node)
          /\ nodes_to_visit' = AncestorRegions(tree, target_node, nodeset)
          /\ frontier_reads' = {}
          /\ frontier_writes' = {}
          /\ Continue("loop")
  /\ seen_reads' = {}
  /\ seen_writes' = {}
  /\ depth' = 0
  /\ UNCHANGED <<vArgs, vParse, vLocate, matched, vPass, vOut>>

\* compress.py 96-114: seed identifiers, target rows, candidate regions.
Seed ==
  /\ pc = "seed"
  /\ IF SplitRaisesKeyError(tree, target_node, nodeset)
     THEN /\ Raise("KeyError")
          /\ UNCHANGED <<vSeed, relevant_lines, frontier_reads, frontier_writes>>
     ELSE LET seed == split_reads_writes(tree, target_node, lang_key, nodeset) IN
          /\ seed_reads' = seed.reads
          /\ seed_writes' = seed.writes
          /\ relevant_lines' = NodeLines(tree, target_node)
          /\ nodes_to_visit' = AncestorRegions(tree, target_node, nodeset)
          /\ frontier_reads' = seed.reads
          /\ frontier_writes' = seed.writes
          /\ Continue("loop")
  /\ seen_reads' = {}
  /\ seen_writes' = {}
  /\ depth' = 0
  /\ UNCHANGED <<vArgs, vParse, vLocate, matched, vPass, vOut>>

\* The loop test without the depth bound.
BeginPass_Unbounded ==
  /\ pc = "loop"
  /\ IF current_ids # {}
     THEN /\ new_reads' = {}
          /\ new_writes' = {}
          /\ any_match' = FALSE
          /\ blk' = 1
          /\ Continue("scan")
     ELSE /\ UNCHANGED vPass
          /\ Continue("comments")
  /\ UNCHANGED <<vArgs, vParse, vLocate, vSeed, relevant_lines, matched, vFrontier, vOut>>

\* compress.py 162-166: the loop test and the start of a pass.
BeginPass ==
  /\ pc = "loop"
  /\ IF depth < max_backward_depth /\ current_ids # {}
     THEN /\ new_reads' = {}
          /\ new_writes' = {}
          /\ any_match' = FALSE
          /\ blk' = 1
          /\ Continue("scan")
     ELSE /\ UNCHANGED vPass
          /\ Continue("comments")
  /\ UNCHANGED <<vArgs, vParse, vLocate, vSeed, relevant_lines, matched, vFrontier, vOut>>

\* compress.py 167-172: one candidate region is scanned.
ScanRegion ==
  /\ pc = "scan"
  /\ LET r == mark_if_references_ids(tree, nodes_to_visit[blk], current_ids, lang_key,
                                     nodeset, include_control_headers)
     IN IF r.raised
        THEN /\ Raise("KeyError")
             /\ UNCHANGED <<relevant_lines, matched, vPass>>
        ELSE /\ relevant_lines' = relevant_lines \cup r.lines
             /\ matched' = matched \cup r.stmts
             /\ any_match' = (any_match \/ r.matched_any)
             /\ new_reads' = new_reads \cup r.discovered_reads
             /\ new_writes' = new_writes \cup r.discovered_writes
             /\ blk' = blk + 1
             /\ Continue(IF blk < Len(nodes_to_visit) THEN "scan" ELSE "end_pass")
  /\ UNCHANGED <<vArgs, vParse, vLocate, vSeed, vFrontier, vOut>>

\* compress.py 173-179: the end of a pass.
EndPass ==
  /\ pc = "end_pass"
  /\ seen_reads' = seen_reads \cup (frontier_reads \ seen_reads)
  /\ seen_writes' = seen_writes \cup (frontier_writes \ seen_writes)
  /\ frontier_reads' = frontier_reads \cup new_reads
  /\ frontier_writes' = frontier_writes \cup new_writes
  /\ depth' = depth + 1
  /\ Continue(IF ~any_match THEN "comments" ELSE "loop")
  /\ UNCHANGED <<vArgs, vParse, vLocate, vSeed, relevant_lines, matched, vPass, vOut>>

\* The comment rows computed but not added to the relevant rows.
PreserveComments_Skip ==
  /\ pc = "comments"
  /\ comment_only_lines' = compute_comment_lines(lang_key, lines)
  /\ Continue("control_headers")
  /\ UNCHANGED <<vArgs, vParse, vLocate, vSeed, relevant_lines, matched, vFrontier, vPass,
                 blocks, header_lines, cursor, out>>

\* compress.py 181-186: comment-only rows of the function are kept.
PreserveComments ==
  /\ pc = "comments"
  /\ comment_only_lines' = compute_comment_lines(lang_key, lines)
  /\ relevant_lines' = relevant_lines \cup ((f_start .. f_end) \cap comment_only_lines')
  /\ Continue("control_headers")
  /\ UNCHANGED <<vArgs, vParse, vLocate, vSeed, matched, vFrontier, vPass, blocks,
                 header_lines, cursor, out>>

\* compress.py 188-215: the post-pass over the control nodes.
EnsureControlHeaders ==
  /\ pc = "control_headers"
  /\ relevant_lines' =
       IF include_control_headers /\ ControlSet(nodeset) # {}
       THEN ensure_control_headers_for_relevant_bodies(tree, func_node, nodeset,
                                                       relevant_lines)
       ELSE relevant_lines
  /\ Continue("merge")
  /\ UNCHANGED <<vArgs, vParse, vLocate, vSeed, matched, vFrontier, vPass, vOut>>

\* compress.py 217-228
MergeBlocks ==
  /\ pc = "merge"
  /\ blocks' = merge_blocks(relevant_lines)
  /\ Continue("build")
  /\ UNCHANGED <<vArgs, vParse, vLocate, vSeed, relevant_lines, matched, vFrontier, vPass,
                 comment_only_lines, header_lines, cursor, out>>

\* compress.py 230-269: header, blocks with their omission markers, the rest
\* of the function and the closing line.
BuildOutput ==
  /\ pc = "build"
  /\ LET h == collect_multiline_header(lines, lang_key, f_start, f_end)
         b == EmitBlocks(blocks, h.cursor, h.header, lines, comment_only_lines, lang_key,
                         line_comment, preserve_inline_comments)
     IN /\ header_lines' = h.header
        /\ cursor' = b.cursor
        /\ out' = b.out
                  \o emit_skipped_region_with_inline_comments(
                       lines, b.cursor, f_end, lang_key, line_comment,
                       preserve_inline_comments)
                  \o (IF LANG_NODESETS[lang_key].closing_is_brace
                      THEN <<lines[f_end + 1]>> ELSE <<>>)
  /\ Continue("finish")
  /\ UNCHANGED <<vArgs, vParse, vLocate, vSeed, relevant_lines, matched, vFrontier, vPass,
                 comment_only_lines, blocks>>

\* compress.py 271-286: dedent and the returned payload.
Finish ==
  /\ pc = "finish"
  /\ out' = dedent_minimum(out)
  /\ Return(JoinLines(out'),
            [language |-> lang_key,
             function_lines |-> <<f_start + 1, f_end + 1>>,
             header_lines |-> <<f_start + 1, f_start + Len(header_lines)>>,
             target_line |-> line_number,
             identifiers |-> [seed |-> seed_reads \cup seed_writes,
                              reads |-> frontier_reads,
                              writes |-> frontier_writes],
             blocks |-> [i \in DOMAIN blocks |-> <<blocks[i][1] + 1, blocks[i][2] + 1>>],
             preserve_inline_comments |-> preserve_inline_comments])
  /\ UNCHANGED <<vArgs, vParse, vLocate, vSeed, relevant_lines, matched, vFrontier, vPass,
                 comment_only_lines, blocks, header_lines, cursor>>

\* source_bytes[n.start_byte : n.end_byte]: the text from the node's start
\* point to its end point.  The row of an end point below the last line is
\* empty, so the text of such a node ends with the final newline.
RowAt(ls, r) == IF r + 1 \in DOMAIN ls THEN ls[r + 1] ELSE <<>>

NodeSource(ls, T, n) ==
  LET s == T[n].srow
      e == T[n].erow
  IN IF s = e THEN SubSeq(RowAt(ls, s), T[n].scol + 1, T[n].ecol)
     ELSE JoinLines(<<SubSeq(RowAt(ls, s), T[n].scol + 1, Len(RowAt(ls, s)))>>
                    \o [r \in 1 .. e - s - 1 |-> RowAt(ls, s + r)]
                    \o <<SubSeq(RowAt(ls, e), 1, T[n].ecol)>>)

\* extract.py 33-54
FindEnclosing ==
  /\ pc = "enclosing"
  /\ func_node' = find_enclosing_function(tree, 1, nodeset.function, line_number)
  /\ target_node' = find_smallest_node_covering_line(
                      tree, IF func_node' # 0 THEN func_node' ELSE 1, line_number)
  /\ lines' = splitlines(source_code)
  /\ Continue("extract")
  /\ UNCHANGED <<vArgs, lang_key, tree, vSeed, relevant_lines, matched, vFrontier, vPass,
                 vOut>>

\* extract.py 56-105: code_on_line and the returned payload.
code_on_line ==
  LET multiline_node == climb_to_multiline(tree, target_node) IN
  IF multiline_node # 0 THEN NodeSource(lines, tree, multiline_node)
  ELSE IF 1 <= line_number /\ line_number <= Len(lines) THEN lines[line_number]
  ELSE <<"None">>

ExtractReturn ==
  /\ pc = "extract"
  /\ IF func_node = 0
     THEN Return(<<"//", " Function not found.">>,
                 [language |-> lang_key, target_line |-> line_number,
                  code_on_line |-> code_on_line])
     ELSE Return(NodeSource(lines, tree, func_node),
                 [language |-> lang_key,
                  function_lines |-> <<f_start + 1, f_end + 1>>,
                  target_line |-> line_number,
                  relative_line_number |-> (line_number - (f_start + 1)) + 1,
                  code_on_line |-> code_on_line])
  /\ UNCHANGED <<vArgs, vParse, vLocate, vSeed, relevant_lines, matched, vFrontier, vPass,
                 vOut>>

Next ==
  \/ Guards
  \/ ExtractGuards
  \/ DetectAndParse
  \/ FindFunction
  \/ FindTarget
  \/ Seed
  \/ BeginPass
  \/ ScanRegion
  \/ EndPass
  \/ PreserveComments
  \/ EnsureControlHeaders
  \/ MergeBlocks
  \/ BuildOutput
  \/ Finish
  \/ FindEnclosing
  \/ ExtractReturn

Spec == Init /\ [][Next]_vars

\* ------------------------------------------------ calls on several threads
\* The engine keeps every value it computes in the locals of the call
\* (compress.py 17-286, extract.py 11-105); LANG_NODESETS, COMMENT_STYLE and
\* SUPPORTED_LANGUAGES are module-level tables that no statement assigns to
\* or updates, so they are constants here.  A process first runs two calls
\* one after the other, each alone, and then runs the same two calls on two
\* threads that the scheduler switches between at any step.
ThreadCalls ==
  { Call("compress", ScenarioA, <<"example", ".", "cpp">>, 13, DefaultDepth, TRUE, TRUE),
    Call("compress", GoFunc, <<"main", ".", "go">>, 4, DefaultDepth, TRUE, TRUE),
    Call("extract", ScenarioA, <<"example", ".", "cpp">>, 13, DefaultDepth, TRUE, TRUE),
    Call("extract", ScenarioA, <<"app", ".", "php">>, 13, DefaultDepth, TRUE, TRUE) }

\* What a call hands to its caller: the returned value or the exception.
Outcome(st) == [pc |-> st.pc, result |-> st.result, exception |-> st.exception]
Finished(st) == st.pc \in {"done", "raised"}
Started(st) == st.pc # "guards"

ThreadsInit ==
  \E c1 \in ThreadCalls, c2 \in ThreadCalls :
    /\ Running(Entry(c1))
    /\ threads = [phase |-> "alone", calls |-> <<c1, c2>>, running |-> 1,
                  alone |-> <<>>, parked |-> <<>>, interleaved |-> FALSE]
    /\ NoUpload
    /\ NoExpand

\* A call that ran alone has finished: its outcome is kept, and the next
\* call starts; after the second, both calls start again on two threads.
NextCall ==
  /\ threads.phase = "alone"
  /\ Finished(Frame)
  /\ IF threads.running = 1
     THEN /\ Resume(Entry(threads.calls[2]))
          /\ threads' = [threads EXCEPT !.running = 2, !.alone = <<Outcome(Frame)>>]
     ELSE /\ Resume(Entry(threads.calls[1]))
          /\ threads' = [threads EXCEPT !.phase = "both", !.running = 1,
                                        !.alone = Append(@, Outcome(Frame)),
                                        !.parked = Entry(threads.calls[2])]
  /\ UNCHANGED <<vUpload, vExpand>>

\* The switch with the frontier sets shared by the two threads instead of
\* being locals of each call.
Switch_SharedFrontier ==
  /\ threads.phase = "both"
  /\ Resume([threads.parked EXCEPT !.frontier_reads = frontier_reads,
                                   !.frontier_writes = frontier_writes])
  /\ threads' = [threads EXCEPT
                   !.parked = Frame,
                   !.running = 3 - @,
                   !.interleaved = @ \/ (/\ Started(Frame) /\ ~Finished(Frame)
                                         /\ Started(threads.parked)
                                         /\ ~Finished(threads.parked))]
  /\ UNCHANGED <<vUpload, vExpand>>

\* The scheduler parks the running call with its locals and resumes the
\* other one.
Switch ==
  /\ threads.phase = "both"
  /\ Resume(threads.parked)
  /\ threads' = [threads EXCEPT
                   !.parked = Frame,
                   !.running = 3 - @,
                   !.interleaved = @ \/ (/\ Started(Frame) /\ ~Finished(Frame)
                                         /\ Started(threads.parked)
                                         /\ ~Finished(threads.parked))]
  /\ UNCHANGED <<vUpload, vExpand>>

ThreadsNext ==
  \/ Next
  \/ NextCall
  \/ Switch

SpecThreads == ThreadsInit /\ [][ThreadsNext]_vars

\* --------------------------------------------- upload_report: enrichment
NumFindings == 3
NumWorkers == 2
MaxRetries == 3

Findings == 1 .. NumFindings

\* The engine does not run while a report is uploaded.
Idle == [Entry(Call("compress", EmptySource, <<>>, 0, DefaultDepth, TRUE, TRUE))
           EXCEPT !.pc = "idle"]

\* What requests.get hands to remote_link_exists: a status code, with a
\* Retry-After header that int() accepts or not; status 0 stands for a
\* requests.RequestException.
LinkResponses ==
  {[status |-> c, retry_after_ok |-> TRUE] : c \in {0, 200, 302, 404, 429, 500}}
  \cup {[status |-> 429, retry_after_ok |-> FALSE]}

\* The verdict that treats every answer other than 200/3xx as not found.
remote_link_exists_strict(r, max_retries) ==
  IF r.status = 429 /\ max_retries > 0
  THEN (IF r.retry_after_ok THEN "retry" ELSE "ValueError")
  ELSE IF r.status = 200 THEN "True"
  ELSE IF 300 <= r.status /\ r.status < 400 THEN "True"
  ELSE "False"

\* sast_client.py, LinkBuilder.remote_link_exists, one request: "True",
\* "False" or "None"; "retry" when it sleeps and asks again with one retry
\* less; "ValueError" when int() rejects the Retry-After header.
remote_link_exists(r, max_retries) ==
  IF r.status = 0 THEN "None"
  ELSE IF r.status = 429 /\ max_retries > 0
  THEN (IF r.retry_after_ok THEN "retry" ELSE "ValueError")
  ELSE IF r.status = 200 THEN "True"
  ELSE IF 300 <= r.status /\ r.status < 400 THEN "True"
  ELSE IF r.status = 404 THEN "False"
  ELSE "None"

\* A task of the pool: where _process_one(f) is, the retries the link check
\* in progress has left, what the check said, the status that made it say
\* False, the value returned, and whether the except clause caught an
\* exception.
Queued ==
  [pc |-> "queued", max_retries |-> MaxRetries, exists |-> "", status |-> 0,
   ret |-> 0, caught |-> FALSE]

\* return 0 / return 1 of _process_one.
TaskReturns(t, v) == [t EXCEPT !.pc = "done", !.ret = v, !.max_retries = MaxRetries]
\* except Exception: ... return 0
TaskCatches(t) ==
  [t EXCEPT !.pc = "done", !.ret = 0, !.caught = TRUE, !.max_retries = MaxRetries]

UploadInit ==
  /\ Running(Idle)
  /\ threads = SingleThread
  /\ upload_args \in [trim_path : BOOLEAN, repo_url : BOOLEAN, workers : 1 .. NumWorkers]
  /\ upload_pc = "submit"
  /\ findings = [f \in Findings |-> [Queued EXCEPT !.pc = "imported"]]
  /\ server = [deleted |-> {}, sourcefile_link |-> {}]
  /\ collected = {}
  /\ enriched = 0
  /\ NoExpand

\* sast_client.py 188-191: every finding is submitted to the pool.
Submit ==
  /\ upload_pc = "submit"
  /\ findings' = [f \in Findings |-> Queued]
  /\ upload_pc' = "collect"
  /\ UNCHANGED <<vEngine, vExpand, upload_args, server, collected, enriched>>

\* A free worker takes the oldest task of the queue.
StartTask(f) ==
  /\ findings[f].pc = "queued"
  /\ \A g \in Findings : g < f => findings[g].pc # "queued"
  /\ Cardinality({g \in Findings : findings[g].pc \notin {"queued", "done"}})
       < upload_args.workers
  /\ findings' = [findings EXCEPT ![f].pc = "trim"]
  /\ UNCHANGED <<vEngine, vExpand, upload_args, upload_pc, server, collected, enriched>>

\* sast_client.py 151-169: the path is trimmed and patched when it starts
\* with trim_path, then the link is built; there is no link without a
\* repository URL or without a file path.
TrimAndBuild(f) ==
  /\ findings[f].pc = "trim"
  /\ \E under_trim_path \in BOOLEAN, has_file_path \in BOOLEAN, patch_status \in {200, 500} :
       LET patched == upload_args.trim_path /\ under_trim_path /\ has_file_path
           link == upload_args.repo_url /\ has_file_path
       IN findings' =
            [findings EXCEPT ![f] =
               IF patched /\ patch_status >= 400 THEN TaskCatches(@)
               ELSE IF ~link THEN TaskReturns(@, 0)
               ELSE [@ EXCEPT !.pc = "check"]]
  /\ UNCHANGED <<vEngine, vExpand, upload_args, upload_pc, server, collected, enriched>>

\* sast_client.py 171-183 and 61-83: one request of the link check.
CheckLink(f) ==
  /\ findings[f].pc = "check"
  /\ \E r \in LinkResponses :
       LET exists == remote_link_exists(r, findings[f].max_retries) IN
       findings' =
         [findings EXCEPT ![f] =
            CASE exists = "retry" -> [@ EXCEPT !.max_retries = @ - 1]
              [] exists = "ValueError" -> TaskCatches(@)
              [] exists = "True" -> [@ EXCEPT !.pc = "post", !.exists = exists,
                                              !.max_retries = MaxRetries]
              [] exists = "False" -> [@ EXCEPT !.pc = "delete", !.exists = exists,
                                               !.status = r.status,
                                               !.max_retries = MaxRetries]
              [] OTHER -> TaskReturns([@ EXCEPT !.exists = exists], 0)]
  /\ UNCHANGED <<vEngine, vExpand, upload_args, upload_pc, server, collected, enriched>>

\* sast_client.py 174-175, client.py 210-215: the metadata POST;
\* raise_for_status raises on 4xx and 5xx.
PostMeta(f) ==
  /\ findings[f].pc = "post"
  /\ \E post_status \in {201, 500} :
       IF post_status >= 400
       THEN /\ findings' = [findings EXCEPT ![f] = TaskCatches(@)]
            /\ server' = server
       ELSE /\ findings' = [findings EXCEPT ![f] = TaskReturns(@, 1)]
            /\ server' = [server EXCEPT !.sourcefile_link = @ \cup {f}]
  /\ UNCHANGED <<vEngine, vExpand, upload_args, upload_pc, collected, enriched>>

\* sast_client.py 177-179, client.py 190-195: the DELETE request.
DeleteFinding(f) ==
  /\ findings[f].pc = "delete"
  /\ \E delete_status \in {204, 500} :
       IF delete_status \in {200, 202, 204}
       THEN /\ findings' = [findings EXCEPT ![f] = TaskReturns(@, 0)]
            /\ server' = [server EXCEPT !.deleted = @ \cup {f}]
       ELSE /\ findings' = [findings EXCEPT ![f] = TaskCatches(@)]
            /\ server' = server
  /\ UNCHANGED <<vEngine, vExpand, upload_args, upload_pc, collected, enriched>>

\* sast_client.py 192-193: as_completed yields a finished future and its
\* result is added.
Collect(f) ==
  /\ upload_pc = "collect"
  /\ findings[f].pc = "done"
  /\ f \notin collected
  /\ enriched' = enriched + findings[f].ret
  /\ collected' = collected \cup {f}
  /\ UNCHANGED <<vEngine, vExpand, upload_args, upload_pc, findings, server>>

\* sast_client.py 197-205: ImportResult(..., enriched_count=enriched).
ReturnImportResult ==
  /\ upload_pc = "collect"
  /\ collected = Findings
  /\ upload_pc' = "returned"
  /\ UNCHANGED <<vEngine, vExpand, upload_args, findings, server, collected, enriched>>

UploadNext ==
  \/ Submit
  \/ \E f \in Findings : StartTask(f)
  \/ \E f \in Findings : TrimAndBuild(f)
  \/ \E f \in Findings : CheckLink(f)
  \/ \E f \in Findings : PostMeta(f)
  \/ \E f \in Findings : DeleteFinding(f)
  \/ \E f \in Findings : Collect(f)
  \/ ReturnImportResult

SpecUpload == UploadInit /\ [][UploadNext]_vars

----------------------------------------------------------------------------
\* AnalyzersConfigHelper.expand_analyzers (config_utils.py 89-175) on a list
\* of one analyzer.  A language configuration is a function from its keys to
\* their values; dict.get of a missing key and the empty string are both
\* falsy and are both written "".

Langs == {"js", "py", "ts"}

\* "go" is a language no configuration defines.
BaseNames == Langs \cup {"go"}

Get(d, k) == IF k \in DOMAIN d THEN d[k] ELSE ""

\* The inherits / inherits_from keys a language configuration may carry.
InheritKeys ==
  {<<>>}
    \cup {("inherits" :> b) : b \in BaseNames}
    \cup {("inherits_from" :> b) : b \in {"py", "go"}}
    \cup {("inherits" :> "") @@ ("inherits_from" :> "py"),
          ("inherits" :> "js") @@ ("inherits_from" :> "go")}

\* The other keys a language configuration may carry.
OtherKeys == {<<>>, ("image" :> "img_lang"), ("name" :> "custom")}

LangConfigs == {i @@ o : i \in InheritKeys, o \in OtherKeys}

\* The configuration lists: every language at most once, each entry a
\* single-key dict whose value is a dict (line 107-109 keeps these whole).
Configurations == UNION {[ls -> LangConfigs] : ls \in SUBSET Langs}

\* The parent analyzers of the tests (test_config_utils.py 49-55, 67-77).
Analyzers ==
  {[name |-> "an", image |-> "img", language_specific_containers |-> TRUE,
    configuration |-> c] : c \in Configurations}
    \cup {[name |-> "simple", image |-> "img", language |-> <<"py">>]}

AllowedLangs == {<<>>, <<{"py"}>>}

\* f"{parent.get('name')}_{root_lang}" (line 165).  A string is the sequence
\* of its pieces, so the value "x" of a key is written <<"x">>.
VariantName(name, root_lang) == <<name, "_", root_lang>>

\* sorted(langs) (line 157): the languages in alphabetical order.
RECURSIVE SortedLangs(_)
SortedLangs(langs) ==
  IF langs = {} THEN <<>>
  ELSE LET first == CHOOSE l \in langs : \A m \in langs :
                      \/ l = m
                      \/ <<l, m>> \in {<<"go", "js">>, <<"go", "py">>, <<"go", "ts">>,
                                        <<"js", "py">>, <<"js", "ts">>, <<"py", "ts">>}
       IN <<first>> \o SortedLangs(langs \ {first})

\* ensure_no_extra_keys (lines 111-117): the keys it raises for.
extra(cfg) == DOMAIN cfg \ {"inherits", "inherits_from"}

\* get_root (lines 122-149) with the sets it closes over passed in; the
\* result carries the cache it leaves behind, or the exception.
RECURSIVE get_root(_, _, _, _)
get_root(cfgs, lang, visiting, cache) ==
  IF lang \in DOMAIN cache THEN [raised |-> FALSE, root |-> cache[lang], cache |-> cache]
  ELSE IF lang \notin DOMAIN cfgs THEN [raised |-> TRUE]
  ELSE IF lang \in visiting THEN [raised |-> TRUE]
  ELSE LET cfg == cfgs[lang]
           base == IF Get(cfg, "inherits") # "" THEN Get(cfg, "inherits")
                   ELSE Get(cfg, "inherits_from")
       IN IF base # ""
          THEN IF base \notin DOMAIN cfgs THEN [raised |-> TRUE]
               ELSE IF extra(cfg) # {} THEN [raised |-> TRUE]
               ELSE LET r == get_root(cfgs, base, visiting \cup {lang}, cache)
                    IN IF r.raised THEN r
                       ELSE [raised |-> FALSE, root |-> r.root,
                             cache |-> (lang :> r.root) @@ r.cache]
          ELSE [raised |-> FALSE, root |-> lang, cache |-> (lang :> lang) @@ cache]

\* groups.setdefault(root, set()).add(lang) (line 154) on the ordered dict.
AddToGroup(gs, root, lang) ==
  IF \E i \in DOMAIN gs : gs[i].root = root
  THEN [i \in DOMAIN gs |->
          IF gs[i].root = root THEN [gs[i] EXCEPT !.langs = @ \cup {lang}] ELSE gs[i]]
  ELSE Append(gs, [root |-> root, langs |-> {lang}])

\* Lines 161-171: the copy of the parent without its configuration, renamed,
\* and then overwritten with every key of the root's configuration but
\* "inherits".
Variant(parent, root_lang, final_langs, root_cfg) ==
  [k \in DOMAIN root_cfg \ {"inherits"} |-> <<root_cfg[k]>>]
    @@ [name |-> VariantName(parent.name, root_lang),
        parent |-> <<parent.name>>,
        language |-> final_langs]
    @@ [k \in DOMAIN parent \ {"configuration", "language_specific_containers", "name"}
          |-> IF k = "language" THEN parent[k] ELSE <<parent[k]>>]

ExpandInit ==
  /\ Running(Idle)
  /\ threads = SingleThread
  /\ NoUpload
  /\ analyzer \in Analyzers
  /\ allowed_langs \in AllowedLangs
  /\ expand_pc = "start"
  /\ cfg_map = <<>> /\ root_cache = <<>> /\ groups = <<>> /\ emitted = 0
  /\ expand_out = <<>>

\* Lines 100-103: an analyzer without language-specific containers is
\* copied to the output as it is.
CopyAnalyzer ==
  /\ expand_pc = "start"
  /\ "language_specific_containers" \notin DOMAIN analyzer
  /\ expand_out' = Append(expand_out,
                          [k \in DOMAIN analyzer |->
                             IF k = "language" THEN analyzer[k] ELSE <<analyzer[k]>>])
  /\ expand_pc' = "returned"
  /\ UNCHANGED <<vEngine, vUpload, analyzer, allowed_langs, cfg_map, root_cache, groups,
                 emitted>>

\* Lines 105-109.
BuildCfgMap ==
  /\ expand_pc = "start"
  /\ "language_specific_containers" \in DOMAIN analyzer
  /\ cfg_map' = analyzer.configuration
  /\ expand_pc' = "roots"
  /\ UNCHANGED <<vEngine, vUpload, analyzer, allowed_langs, root_cache, groups, emitted,
                 expand_out>>

\* Lines 152-154, one round of the loop over cfg_map.keys(); the order of
\* the keys is the order of the configuration list, which the caller
\* chooses.  A ValueError of get_root leaves the call.
ResolveRoot(lang) ==
  /\ expand_pc = "roots"
  /\ lang \in DOMAIN cfg_map
  /\ \A i \in DOMAIN groups : lang \notin groups[i].langs
  /\ LET r == get_root(cfg_map, lang, {}, root_cache) IN
       IF r.raised
       THEN /\ expand_pc' = "raised"
            /\ UNCHANGED <<root_cache, groups>>
       ELSE /\ root_cache' = r.cache
            /\ groups' = AddToGroup(groups, r.root, lang)
            /\ expand_pc' = expand_pc
  /\ UNCHANGED <<vEngine, vUpload, analyzer, allowed_langs, cfg_map, emitted, expand_out>>

\* Every key of cfg_map has been through the loop at line 152.
RootsResolved ==
  /\ expand_pc = "roots"
  /\ \A lang \in DOMAIN cfg_map : \E i \in DOMAIN groups : lang \in groups[i].langs

\* Lines 156-173, one round of the loop over groups.items().
EmitVariant ==
  /\ RootsResolved
  /\ emitted < Len(groups)
  /\ LET g == groups[emitted + 1]
         final_langs == SortedLangs(IF allowed_langs = <<>> THEN g.langs
                                    ELSE g.langs \cap allowed_langs[1])
     IN expand_out' =
          IF final_langs = <<>> THEN expand_out
          ELSE Append(expand_out, Variant(analyzer, g.root, final_langs, cfg_map[g.root]))
  /\ emitted' = emitted + 1
  /\ UNCHANGED <<vEngine, vUpload, analyzer, allowed_langs, expand_pc, cfg_map, root_cache,
                 groups>>

\* Line 175.
ReturnOut ==
  /\ RootsResolved
  /\ emitted = Len(groups)
  /\ expand_pc' = "returned"
  /\ UNCHANGED <<vEngine, vUpload, analyzer, allowed_langs, cfg_map, root_cache, groups,
                 emitted, expand_out>>

ExpandNext ==
  \/ CopyAnalyzer
  \/ BuildCfgMap
  \/ \E lang \in Langs : ResolveRoot(lang)
  \/ EmitVariant
  \/ ReturnOut

SpecExpand == ExpandInit /\ [][ExpandNext]_vars

TypeOK ==
  /\ pc \in {"guards", "detect", "find_function", "find_target", "seed", "loop", "scan",
             "end_pass", "comments", "control_headers", "merge", "build", "finish",
             "enclosing", "extract", "done", "raised"}
  /\ exception \in {"", "KeyError"}

\* ------------------------------------------------------------- properties
Returned == pc = "done"
SliceReturned == pc = "done" /\ mode = "compress" /\ "blocks" \in DOMAIN result.meta
OnlyTargetLine == result.meta = [target_line |-> line_number]

\* C9: the guards of compress_function_from_source never raise and are
\* decided before anything else, whatever the file name: the invalid-line
\* diagnostic when line_number <= 0, else the empty-source diagnostic when the
\* source has no lines, else the beyond-end diagnostic when line_number
\* exceeds the number of lines; meta then holds target_line only.
C9_GuardsDecideFirst ==
  (mode = "compress" /\ pc # "guards") =>
    LET n == Len(splitlines(source_code))
        verdict == IF line_number <= 0 THEN InvalidLineText
                   ELSE IF n = 0 THEN EmptySourceText
                   ELSE IF line_number > n THEN BeyondEndText
                   ELSE <<>>
    IN IF verdict # <<>>
       THEN /\ pc = "done"
            /\ exception = ""
            /\ result.text = verdict
            /\ OnlyTargetLine
            /\ lang_key = "" /\ tree = <<>>
       ELSE result.text \notin {InvalidLineText, EmptySourceText, BeyondEndText}

\* Scenario C under a file name without a supported extension.
C9_Witness ==
  /\ mode = "compress" /\ pc = "done"
  /\ line_number = 0
  /\ filename = <<"notes", ".", "txt">>
  /\ source_code # <<>>
  /\ result = [text |-> InvalidLineText, meta |-> [target_line |-> 0]]

GuardTexts == {InvalidLineText, EmptySourceText, BeyondEndText}
UnsupportedText(ext) == <<"//", " ", "Unsupported file extension: ">> \o ext

\* C10: the profile is selected from the lower-cased extension alone, and an
\* extension that is not in the table is never given a default: both entry
\* points return the diagnostic naming the extension, with target_line as
\* the only meta entry, no exception escapes and no profile is used.
C10_NoDefaultLanguage ==
  (pc \notin {"guards", "detect"}) =>
    LET ext == lower(suffix(filename)) IN
    IF ext \notin DOMAIN SUPPORTED_LANGUAGES
    THEN /\ pc = "done"
         /\ exception = ""
         /\ lang_key = "" /\ tree = <<>>
         /\ OnlyTargetLine
         /\ result.text \in GuardTexts \cup {UnsupportedText(ext)}
    ELSE /\ result.text # UnsupportedText(ext)
         /\ lang_key # "" =>
              /\ lang_key \in DOMAIN LANG_NODESETS
              /\ lang_key = detect_language(<<"x">> \o ext).lang_key

\* A PHP file, which has a node profile but no table entry, in extract mode.
C10_Witness ==
  /\ mode = "extract" /\ pc = "done"
  /\ filename = <<"EXAMPLE", ".", "PHP">>
  /\ line_number = 21
  /\ result = [text |-> <<"//", " ", "Unsupported file extension: ", ".", "php">>,
               meta |-> [target_line |-> 21]]

TextLines == splitlines(result.text)
TextHas(tok) == \E i \in DOMAIN TextLines : tok \in Range(TextLines[i])
HasLine(line) == \E i \in DOMAIN TextLines : TextLines[i] = line
DefaultOptions ==
  /\ max_backward_depth = DefaultDepth
  /\ preserve_inline_comments
  /\ include_control_headers

ScenarioACall ==
  /\ mode = "compress"
  /\ source_code = ScenarioA.source
  /\ filename = <<"example", ".", "cpp">>
  /\ line_number = 21
  /\ DefaultOptions

\* C1: Scenario A, sliced at the `return s;` line with default options: the
\* text includes the `for` header and the `if` header, holds an omission
\* marker in place of the code of the `dummy` line, and keeps the full-line
\* comments and the inline comments.
C1_ScenarioA ==
  (ScenarioACall /\ pc = "done") =>
    /\ TextHas("for (int i = 0; i < b; ++i)")
    /\ TextHas("if (s > 100)")
    /\ ~TextHas("int dummy = 0;")
    /\ HasLine(<<"//", " ... omitted ...">>)
    /\ HasLine(Ind4 \o <<"//", " entry">>)
    /\ HasLine(Ind4 \o <<"//", " tail">>)
    /\ HasLine(Ind4 \o <<"/*", " block comment header ", "*/">>)
    /\ TextHas(" inline-keep-me")
    /\ TextHas(" inline-omit-me")
    /\ TextHas(" tail-inline")

\* C3: the relevant-line set only ever holds rows of the located function,
\* after the seed step, every scan, control-header promotion and comment
\* preservation, and every range of meta.blocks lies in meta.function_lines.
C3_RelevantInsideFunction ==
  (mode = "compress" /\ pc \in {"loop", "scan", "end_pass", "comments", "control_headers",
                                 "merge", "build", "finish", "done"}
                    /\ target_node # 0) =>
    /\ relevant_lines \subseteq f_start .. f_end
    /\ SliceReturned =>
         \A i \in DOMAIN result.meta.blocks :
           /\ result.meta.function_lines[1] <= result.meta.blocks[i][1]
           /\ result.meta.blocks[i][2] <= result.meta.function_lines[2]

Rows(block) == block[1] .. block[2]

\* C6: whenever a slice is returned, meta.blocks is the decomposition of the
\* final relevant-line set into maximal contiguous runs: ascending,
\* non-overlapping, two consecutive ranges separated by at least one row
\* that is not relevant, and together exactly the relevant rows (1-based).
C6_BlocksAreMaximalRuns ==
  SliceReturned =>
    LET B == result.meta.blocks IN
    /\ \A i \in DOMAIN B : B[i][1] <= B[i][2]
    /\ \A i \in DOMAIN B : i < Len(B) => B[i][2] + 1 < B[i + 1][1]
    /\ UNION {Rows(B[i]) : i \in DOMAIN B} = {r + 1 : r \in relevant_lines}

\* Scenario A at `s = s + i;': several runs, one of them longer than a row.
C6_Witness ==
  /\ SliceReturned
  /\ source_code = ScenarioA.source
  /\ Len(result.meta.blocks) >= 3
  /\ \E i \in DOMAIN result.meta.blocks :
       result.meta.blocks[i][1] < result.meta.blocks[i][2]

C7_WitnessCompress ==
  /\ SliceReturned
  /\ source_code = PyClass.source
  /\ line_number = 6
  /\ result.meta.function_lines = <<4, 7>>

CommentRows == comment_only_lines \cap (f_start .. f_end)

\* What dedent_minimum leaves of a line when it removes k leading spaces.
Dedented(line, k) ==
  IF leading_spaces(line) >= k THEN SubSeq(line, k + 1, Len(line)) ELSE line

\* The numbers of leading spaces the final dedent can remove: the first
\* line of the function is always emitted.
CommonIndents == 0 .. leading_spaces(lines[f_start + 1])

BraceRows == {r \in f_start .. f_end : "{" \in Range(lines[r + 1])}

\* C8 as stated: the text starts with the header (brace-closed: the lines of
\* the function up to and including the first that contains "{"; else the
\* declaration line) and, brace-closed, ends with the function's last line.
C8_HeaderAndClosingVerbatim ==
  SliceReturned =>
    LET last_header == IF ~nodeset.closing_is_brace THEN f_start
                       ELSE IF BraceRows # {} THEN SetMin(BraceRows)
                       ELSE f_start
    IN /\ \A r \in f_start .. last_header :
            /\ r - f_start + 1 <= Len(TextLines)
            /\ TextLines[r - f_start + 1] = lines[r + 1]
       /\ nodeset.closing_is_brace => Last(TextLines) = lines[f_end + 1]

\* C8: the text starts with the header and, for a brace-closed language,
\* ends with the function's last line, each verbatim but for the leading
\* spaces removed by the final dedent; the header of a brace-closed function
\* none of whose lines contains "{" is all the lines of the function.
C8_HeaderAndClosingUpToDedent ==
  SliceReturned =>
    LET last_header == IF ~nodeset.closing_is_brace THEN f_start
                       ELSE IF BraceRows # {} THEN SetMin(BraceRows)
                       ELSE f_end
    IN \E k \in CommonIndents :
         /\ (k > 0 => ~HasLine(comment_omitted(line_comment)))
         /\ \A r \in f_start .. last_header :
              /\ r - f_start + 1 <= Len(TextLines)
              /\ TextLines[r - f_start + 1] = Dedented(lines[r + 1], k)
         /\ nodeset.closing_is_brace => Last(TextLines) = Dedented(lines[f_end + 1], k)

\* Scenario A: a header of two lines, the second being the "{" line.
C8_Witness ==
  /\ SliceReturned
  /\ source_code = ScenarioA.source
  /\ line_number = 13
  /\ SubSeq(TextLines, 1, 2) = << <<"int add(int a, int b)">>, <<"{">> >>
  /\ Last(TextLines) = <<"}">>
  /\ result.meta.header_lines = <<5, 6>>

\* The identifiers reached from the seed in at most d dependency hops: one
\* hop leads from an identifier to the identifiers of the key statements
\* that hold it.
KeyStatements == {n \in Subtree(tree, 1) : is_key_stmt(tree, n, nodeset)}
IdsOf(n) == collect_idents_in_node(tree, n, nodeset)

RECURSIVE Reach(_)
Reach(d) ==
  IF d = 0 THEN collect_idents_in_node(tree, target_node, nodeset)
  ELSE LET before == Reach(d - 1)
       IN before \cup UNION {IdsOf(n) : n \in {m \in KeyStatements : IdsOf(m) \cap before # {}}}

\* C4: with max_backward_depth = 2, an identifier that the seed reaches only
\* through three dependency hops is in neither meta.identifiers.reads nor
\* writes, and a key statement that holds no identifier reached within one
\* hop is not matched by the identifier expansion.
C4_DepthBound ==
  (SliceReturned /\ max_backward_depth = 2) =>
    /\ (result.meta.identifiers.reads \cup result.meta.identifiers.writes) \subseteq Reach(2)
    /\ \A n \in KeyStatements : IdsOf(n) \cap Reach(1) = {} => n \notin matched

\* The straight chain v1 = v0; v2 = v1; v3 = v2 sliced at its last
\* statement: v1 is found in the second pass, v0 is three hops away.
C4_Witness ==
  /\ SliceReturned /\ max_backward_depth = 2
  /\ lines[2] = Ind2 \o <<"v1", " = ", "v0", ";">>
  /\ lines[3] = Ind2 \o <<"v2", " = ", "v1", ";">>
  /\ lines[4] = Ind2 \o <<"v3", " = ", "v2", ";">>
  /\ line_number = 4
  /\ "v1" \in result.meta.identifiers.reads
  /\ "v0" \in Reach(3) \ Reach(2)
  /\ "v0" \notin result.meta.identifiers.reads \cup result.meta.identifiers.writes
  /\ 1 \notin relevant_lines
  /\ ~HasLine(lines[2])

\* The passes of the expansion loop never outnumber max_backward_depth.
PassBound ==
  /\ depth <= Max(0, max_backward_depth)
  /\ (max_backward_depth <= 0 \/ seed_reads \cup seed_writes = {}) => depth = 0 /\ blk = 0

\* C5: the expansion loop runs at most max_backward_depth passes (none when
\* max_backward_depth <= 0 or the seed is empty), and every invocation ends
\* with a returned result.
C5_BoundedPassesThenResult ==
  /\ PassBound
  /\ pc # "raised"
\* The call of one case of the battery has returned.
CaseReturned(c) ==
  /\ mode = "extract" /\ pc = "done"
  /\ filename = c.filename /\ source_code = c.prog.source /\ line_number = c.line

\* The result is the text of the function enclosing the target line, and the
\* text holds the function's name.
FunctionTextReturned(func) ==
  /\ lang_key \in DOMAIN LANG_NODESETS
  /\ func_node # 0
  /\ tree[func_node].type \in LANG_NODESETS[lang_key].function
  /\ tree[func_node].srow + 1 <= line_number /\ line_number <= tree[func_node].erow + 1
  /\ result.text = NodeSource(splitlines(source_code), tree, func_node)
  /\ func \in Range(result.text)
  /\ "function_lines" \in DOMAIN result.meta

\* C11: for every file name of the cross-language battery, the seventeen
\* extensions from .py to .php, extract_function_from_source resolves a
\* language profile and returns the text of the function enclosing the target
\* line, a text that holds the function's name, and not a diagnostic.
C11_BatteryReturnsFunction ==
  \A c \in CASES : CaseReturned(c) => FunctionTextReturned(c.func)

\* The same for the sixteen extensions that SUPPORTED_LANGUAGES lists.
C11_ListedExtensionsReturnFunction ==
  \A c \in CASES :
    (CaseReturned(c) /\ lower(suffix(c.filename)) \in DOMAIN SUPPORTED_LANGUAGES)
      => FunctionTextReturned(c.func)

\* C12: every identifier listed in meta.identifiers.seed is also listed in
\* meta.identifiers.reads or meta.identifiers.writes, for every tree, target
\* line and max_backward_depth, 0 included; reads and writes may share an
\* identifier.  The frontier holds the seed from the seed step on.
C12_SeedInReadsOrWrites ==
  /\ (mode = "compress" /\ pc \in {"loop", "scan", "end_pass", "comments", "control_headers",
                                     "merge", "build", "finish"})
       => (seed_reads \cup seed_writes) \subseteq (frontier_reads \cup frontier_writes)
  /\ SliceReturned
       => /\ result.meta.identifiers.seed
               \subseteq (result.meta.identifiers.reads \cup result.meta.identifiers.writes)
          /\ result.meta.identifiers.seed = seed_reads \cup seed_writes

\* A slice with max_backward_depth = 0 whose seed is not empty and whose
\* target statement reads and writes the same identifier.
C12_Witness ==
  /\ SliceReturned
  /\ max_backward_depth = 0
  /\ result.meta.identifiers.seed # {}
  /\ result.meta.identifiers.reads \cap result.meta.identifiers.writes # {}

RECURSIVE AncestorsOrSelf(_, _)
AncestorsOrSelf(T, n) == IF n = 0 THEN {} ELSE {n} \cup AncestorsOrSelf(T, T[n].parent)

CoversLine(T, n, l) == T[n].srow + 1 <= l /\ l <= T[n].erow + 1
MultiLine(T, n) == T[n].erow > T[n].srow
ExtractAnswered == mode = "extract" /\ pc = "done" /\ "language" \in DOMAIN result.meta
LineInFile == 1 <= line_number /\ line_number <= Len(splitlines(source_code))
FunctionNotFoundText == <<"//", " Function not found.">>

\* C14: in extract mode, for every target line within the file,
\* meta.code_on_line is present whether or not a function encloses the line,
\* and it is the text of a construct whose span contains the line: the
\* located node, which covers the line and has no child covering it, when it
\* spans more than one line, otherwise its nearest ancestor that spans more
\* than one line, and the raw source line when there is no such ancestor;
\* when no function-like node covers the line, text is the 'Function not
\* found.' diagnostic.
C14_CodeOnLine ==
  (ExtractAnswered /\ LineInFile) =>
    LET T == tree
        l == line_number
        up == AncestorsOrSelf(T, target_node)
        multi == {n \in up : MultiLine(T, n)}
        nearest == CHOOSE n \in multi : \A k \in multi : k \in AncestorsOrSelf(T, n)
        enclosing == {n \in DOMAIN T : /\ T[n].type \in LANG_NODESETS[lang_key].function
                                        /\ CoversLine(T, n, l)}
    IN /\ "code_on_line" \in DOMAIN result.meta
       /\ result.meta.code_on_line # <<"None">>
       /\ target_node = 0 => ~CoversLine(T, 1, l)
       /\ target_node # 0 =>
            /\ CoversLine(T, target_node, l)
            /\ \A i \in DOMAIN T[target_node].children :
                 ~CoversLine(T, T[target_node].children[i], l)
       /\ result.meta.code_on_line =
            IF multi # {} THEN NodeSource(splitlines(source_code), T, nearest)
            ELSE splitlines(source_code)[l]
       /\ multi # {} => CoversLine(T, nearest, l)
       /\ (enclosing = {}) <=> (result.text = FunctionNotFoundText)
       /\ (enclosing = {}) <=> (func_node = 0)

\* Line 3 of the module of test_code_on_line_when_function_not_found: no
\* function encloses VALUE = 123, the located node is single-line, and
\* code_on_line is the text of the module, its nearest multi-line ancestor.
C14_Witness ==
  /\ ExtractAnswered /\ LineInFile
  /\ line_number = 3
  /\ func_node = 0 /\ target_node # 0
  /\ ~MultiLine(tree, target_node)
  /\ result.text = FunctionNotFoundText
  /\ \E i \in DOMAIN splitlines(result.meta.code_on_line) :
       splitlines(result.meta.code_on_line)[i] = <<"VALUE = 123">>
  /\ Len(splitlines(result.meta.code_on_line)) > 1

\* C15: while upload_report enriches the imported findings on concurrent
\* workers, a finding is deleted only when its link check returned a
\* definite not-found (HTTP 404); a finding whose check is ambiguous or whose
\* processing raises (the metadata POST fails with 500, for one) is neither
\* deleted nor counted, and the run is not aborted: every task ends by
\* returning; under every interleaving enriched_count is the number of
\* findings whose link exists and whose metadata POST succeeded.
C15_DeleteOnlyOnNotFound ==
  upload_pc # "idle" =>
    /\ \A f \in server.deleted :
         findings[f].exists = "False" /\ findings[f].status = 404
    /\ \A f \in Findings :
         (findings[f].pc = "done" /\ (findings[f].exists = "None" \/ findings[f].caught))
           => (f \notin server.deleted /\ findings[f].ret = 0)
    /\ \A f \in Findings :
         findings[f].pc \in {"imported", "queued", "trim", "check", "post", "delete", "done"}
    /\ enriched = Cardinality({f \in collected : /\ findings[f].exists = "True"
                                                  /\ f \in server.sourcefile_link})
    /\ upload_pc = "returned"
         => enriched = Cardinality({f \in Findings : /\ findings[f].exists = "True"
                                                     /\ f \in server.sourcefile_link})

\* A run on two workers that returned after the first finding had its
\* metadata POST fail, the second was deleted on 404 and the third was given
\* its link.
C15_Witness ==
  /\ upload_pc = "returned"
  /\ upload_args.workers = 2
  /\ enriched = 1
  /\ findings[1].exists = "True" /\ findings[1].caught
  /\ server.deleted = {2}
  /\ server.sourcefile_link = {3}

----------------------------------------------------------------------------
\* The language a configured language inherits from, "" for a root.
BaseOf(cfgs, l) ==
  IF Get(cfgs[l], "inherits") # "" THEN Get(cfgs[l], "inherits") ELSE Get(cfgs[l], "inherits_from")

\* The inherits chain of l: l, the language it inherits from, and so on for
\* at most n links.
RECURSIVE ChainOf(_, _, _)
ChainOf(cfgs, l, n) ==
  IF n = 0 \/ l \notin DOMAIN cfgs THEN {l}
  ELSE IF BaseOf(cfgs, l) = "" THEN {l}
  ELSE {l} \cup ChainOf(cfgs, BaseOf(cfgs, l), n - 1)

\* Some chain has a cycle, names a language the configuration does not
\* define, or has an inheriting language with keys other than
\* inherits / inherits_from.
InvalidInherits(cfgs) ==
  \E l \in DOMAIN cfgs :
    LET chain == ChainOf(cfgs, l, Cardinality(Langs)) IN
    \/ \E m \in chain : m \notin DOMAIN cfgs
    \/ \E m \in chain \cap DOMAIN cfgs :
         /\ BaseOf(cfgs, m) # ""
         /\ \/ m \in ChainOf(cfgs, BaseOf(cfgs, m), Cardinality(Langs))
            \/ extra(cfgs[m]) # {}

\* The inheritance root of l in a valid configuration.
RootOf(cfgs, l) ==
  CHOOSE m \in ChainOf(cfgs, l, Cardinality(Langs)) : m \in DOMAIN cfgs /\ BaseOf(cfgs, m) = ""

\* expand_analyzers has left, with allowed_langs = None, an analyzer with
\* language-specific containers.
ExpandAnswered ==
  /\ expand_pc \in {"returned", "raised"}
  /\ "language_specific_containers" \in DOMAIN analyzer
  /\ allowed_langs = <<>>

\* The emitted variants whose language list holds l.
VariantsOf(l) == {i \in DOMAIN expand_out : l \in Range(expand_out[i].language)}

\* C16: for an analyzer with language-specific containers expand_analyzers
\* raises ValueError when an inherits chain has a cycle, names an absent
\* language or carries other keys; otherwise it emits one variant per
\* inheritance root and every configured language belongs to exactly one
\* emitted variant, the one named after its root.
C16_ExpandOutcomes ==
  ExpandAnswered =>
    LET cfgs == analyzer.configuration IN
    IF InvalidInherits(cfgs) THEN expand_pc = "raised"
    ELSE /\ expand_pc = "returned"
         /\ Len(expand_out) = Cardinality({RootOf(cfgs, l) : l \in DOMAIN cfgs})
         /\ \A l \in DOMAIN cfgs :
              /\ Cardinality(VariantsOf(l)) = 1
              /\ \A i \in VariantsOf(l) :
                   expand_out[i].name = VariantName(analyzer.name, RootOf(cfgs, l))

\* The part of C16 the code keeps: ValueError exactly for the invalid
\* configurations, otherwise one variant per root, each holding the
\* languages of its root in its language list.
C16_RaisesExactlyOnInvalid ==
  ExpandAnswered =>
    LET cfgs == analyzer.configuration IN
    IF InvalidInherits(cfgs) THEN expand_pc = "raised"
    ELSE /\ expand_pc = "returned"
         /\ Len(expand_out) = Cardinality({RootOf(cfgs, l) : l \in DOMAIN cfgs})
         /\ \A l \in DOMAIN cfgs : Cardinality(VariantsOf(l)) = 1

----------------------------------------------------------------------------
\* The identifiers scanned in the passes before the current one: EndPass
\* moves the identifiers of a pass into seen_reads and seen_writes, and
\* nothing else is ever added to them.
ScannedBefore == seen_reads \cup seen_writes

\* C17: in every pass the identifiers matched against the key statements
\* are the frontier minus the identifiers scanned in earlier passes, so no
\* identifier is scanned in two passes.
C17_ScannedOnce ==
  (mode = "compress" /\ pc = "scan") =>
    /\ current_ids = (frontier_reads \cup frontier_writes) \ ScannedBefore
    /\ current_ids \cap ScannedBefore = {}

\* What the code keeps: an identifier is scanned again only in the role it
\* has not been scanned in.
C17_ScannedOncePerRole ==
  (mode = "compress" /\ pc = "scan") =>
    \A id \in current_ids \cap ScannedBefore :
      \/ id \in seen_reads \ seen_writes /\ id \in frontier_writes
      \/ id \in seen_writes \ seen_reads /\ id \in frontier_reads

----------------------------------------------------------------------------
\* The slicer has located its target node and classified it.
Seeded == mode = "compress" /\ target_node # 0 /\ pc \notin {"find_target", "seed", "raised"}

\* C18: the deepest-node locator returns the function node or one of its
\* descendants, whose rows contain the target line and none of whose
\* children has rows containing it; the seed identifiers are the ones
\* classified from this node.
C18_DeepestNode ==
  Seeded =>
    /\ target_node \in Subtree(tree, func_node)
    /\ CoversLine(tree, target_node, line_number)
    /\ \A i \in DOMAIN tree[target_node].children :
         ~CoversLine(tree, tree[target_node].children[i], line_number)
    /\ seed_reads = split_reads_writes(tree, target_node, lang_key, nodeset).reads
    /\ seed_writes = split_reads_writes(tree, target_node, lang_key, nodeset).writes

\* The target line of a function with statements on several lines: the
\* target node lies below the function node, beside siblings on other
\* lines, and yields seed identifiers.
C18_Witness ==
  /\ Seeded /\ pc = "done"
  /\ source_code = ScenarioA.source
  /\ target_node # func_node
  /\ tree[func_node].children # <<>>
  /\ \E n \in Subtree(tree, func_node) : ~CoversLine(tree, n, line_number)
  /\ seed_reads \cup seed_writes # {}

----------------------------------------------------------------------------
\* The function locator of either mode has answered.
Located ==
  \/ pc \in {"find_target", "seed", "loop", "scan", "end_pass", "comments",
              "control_headers", "merge", "build", "finish", "extract"}
  \/ pc = "done" /\ "language" \in DOMAIN result.meta

\* The function-like nodes whose rows contain the target line.
EnclosingFunctions ==
  {n \in DOMAIN tree : is_function_like(tree, n, nodeset) /\ CoversLine(tree, n, line_number)}

\* C19: the function locator returns the outermost function-like node
\* enclosing the target line: a function-like node whose rows contain the
\* line and none of whose proper ancestors is such a node; it returns
\* nothing exactly when no function-like node's rows contain the line.
C19_OutermostFunction ==
  Located =>
    IF func_node = 0 THEN EnclosingFunctions = {}
    ELSE /\ func_node \in EnclosingFunctions
         /\ AncestorsOrSelf(tree, tree[func_node].parent) \cap EnclosingFunctions = {}

\* A line inside a function-like node nested in another one, in extract
\* mode and in compress mode.
NestedFunctionLocated(m) ==
  /\ Located /\ mode = m /\ pc = "done"
  /\ func_node # 0
  /\ \E n \in EnclosingFunctions : n # func_node /\ func_node \in AncestorsOrSelf(tree, n)

C19_Witness == NestedFunctionLocated("extract")

C19_WitnessCompress == NestedFunctionLocated("compress")

C19_WitnessNotFound == Located /\ pc = "done" /\ func_node = 0 /\ tree # <<>>

----------------------------------------------------------------------------
\* The slicer is in its loop of passes.
InPasses == mode = "compress" /\ target_node # 0 /\ pc \in {"loop", "scan", "end_pass"}

\* The matched key statements inside the located function.
MatchedInFunction == matched \cap Subtree(tree, func_node)

\* The control-kind ancestors of n strictly between n and the located
\* function.
ControlAncestors(n) ==
  {q \in AncestorsOrSelf(tree, tree[n].parent) \cap (Subtree(tree, func_node) \ {func_node}) :
     tree[q].type \in ControlSet(nodeset)}

\* The ancestors of n below its nearest function-like ancestor.
RECURSIVE BelowNearestFunction(_)
BelowNearestFunction(q) ==
  IF q = 0 \/ is_function_like(tree, q, nodeset) THEN {}
  ELSE {q} \cup BelowNearestFunction(tree[q].parent)

\* C20: with include_control_headers, once a key statement n is matched
\* every row of every control-kind ancestor of n between n and the located
\* function is relevant, also across nested blocks and nested function-like
\* nodes; without it, a match marks only the rows of n itself.
C20_ControlAncestorsPromoted ==
  InPasses =>
    IF include_control_headers
    THEN \A n \in MatchedInFunction : \A q \in ControlAncestors(n) :
           NodeLines(tree, q) \subseteq relevant_lines
    ELSE relevant_lines =
           NodeLines(tree, target_node) \cup UNION {NodeLines(tree, n) : n \in matched}

\* What the code keeps: the control ancestors up to the nearest
\* function-like ancestor of n are promoted.
C20_PromotedUpToNearestFunction ==
  InPasses =>
    IF include_control_headers
    THEN \A n \in MatchedInFunction :
           \A q \in ControlAncestors(n) \cap BelowNearestFunction(tree[n].parent) :
             NodeLines(tree, q) \subseteq relevant_lines
    ELSE relevant_lines =
           NodeLines(tree, target_node) \cup UNION {NodeLines(tree, n) : n \in matched}

\* A statement matched inside a loop: the loop's rows became relevant.
C20_PromotedReached ==
  /\ InPasses /\ include_control_headers
  /\ \E n \in MatchedInFunction :
       \E q \in ControlAncestors(n) \cap BelowNearestFunction(tree[n].parent) :
         /\ NodeLines(tree, q) \subseteq relevant_lines
         /\ ~(NodeLines(tree, q) \subseteq NodeLines(tree, n) \cup NodeLines(tree, target_node))

----------------------------------------------------------------------------
\* The post-pass over the control nodes has run.
HeadersEnsured ==
  /\ mode = "compress" /\ target_node # 0 /\ include_control_headers
  /\ pc \in {"merge", "build", "finish"} \/ (pc = "done" /\ "blocks" \in DOMAIN result.meta)

\* The control-kind nodes of the located function.
ControlNodes == {n \in Subtree(tree, func_node) : tree[n].type \in ControlSet(nodeset)}

\* The rows of the branches of control node n: its block-like children and
\* the children that reach below its header row (else branches, statement
\* bodies).
BranchRows(n) ==
  UNION {NodeLines(tree, tree[n].children[i]) :
           i \in {j \in DOMAIN tree[n].children :
                     \/ is_block_like(tree, tree[n].children[j], nodeset)
                     \/ tree[tree[n].children[j]].erow > tree[n].srow}}

\* C21: with include_control_headers the final relevant rows are closed
\* under control headers: a control node of the located function with a
\* relevant row in any of its branches has its header row relevant.
C21_ClosedUnderControlHeaders ==
  HeadersEnsured =>
    \A n \in ControlNodes :
      BranchRows(n) \cap relevant_lines # {} => tree[n].srow \in relevant_lines

\* What the code keeps: closure for the one child the post-pass takes as
\* the body.
C21_ClosedForChosenBody ==
  HeadersEnsured =>
    \A n \in ControlNodes :
      (/\ ControlBody(tree, n, nodeset) # 0
       /\ NodeLines(tree, ControlBody(tree, n, nodeset)) \cap relevant_lines # {})
        => tree[n].srow \in relevant_lines

----------------------------------------------------------------------------
\* The output has been assembled (and not yet dedented).
Assembled == mode = "compress" /\ pc = "finish"

\* The first row after the header and the last row of the function that is
\* not its closing line.
BodyStart == f_start + Len(header_lines)
BodyEnd == IF LANG_NODESETS[lang_key].closing_is_brace THEN f_end - 1 ELSE f_end
ClosingLine == IF LANG_NODESETS[lang_key].closing_is_brace THEN <<lines[f_end + 1]>> ELSE <<>>

\* The row after the maximal run of omitted rows that starts at row r.
RECURSIVE RunEnd(_, _)
RunEnd(r, last) == IF r > last \/ r \in relevant_lines THEN r ELSE RunEnd(r + 1, last)

\* The body as the rows r..last are to be shown: a relevant row as it is, a
\* maximal run of omitted rows as one marker (with its masked inline
\* comments, when they are kept) if it has a non-blank row, else as nothing.
RECURSIVE ExpectedBody(_, _)
ExpectedBody(r, last) ==
  IF r > last THEN <<>>
  ELSE IF r \in relevant_lines
  THEN (IF NonBlank(lines[r + 1]) \/ r \in comment_only_lines THEN <<lines[r + 1]>> ELSE <<>>)
       \o ExpectedBody(r + 1, last)
  ELSE LET stop == RunEnd(r, last) IN
       (IF \E k \in r .. stop - 1 : NonBlank(lines[k + 1])
        THEN <<comment_omitted(line_comment)>>
             \o (IF preserve_inline_comments THEN MaskedLines(lines, r, stop, lang_key)
                 ELSE <<>>)
        ELSE <<>>)
       \o ExpectedBody(stop, last)

\* C22: in the assembled output every maximal run of omitted rows between
\* the header and the function's end line stands as exactly one omission
\* marker at the run's place when the run has a non-blank row and as
\* nothing when it has none: before the first block, between blocks and
\* after the last block, with or without a closing brace.
C22_OneMarkerPerOmittedRun ==
  Assembled => out = header_lines \o ExpectedBody(BodyStart, BodyEnd) \o ClosingLine

\* What the code keeps: the same with the function's last row left out of
\* the last run in every language (a relevant last row is shown), whenever
\* the relevant rows lie inside the function.
C22_MarkersUpToLastRow ==
  (Assembled /\ relevant_lines \subseteq f_start .. f_end) =>
    LET last == f_end - 1
        tail == IF f_end \in relevant_lines /\ f_end >= BodyStart
                THEN ExpectedBody(f_end, f_end) ELSE <<>>
    IN out = header_lines \o ExpectedBody(BodyStart, last) \o tail \o ClosingLine

\* An indentation-based function whose last row is omitted and is not
\* blank, and whose output holds no omission marker at all.
C22_OmittedLastRowUnmarked ==
  /\ Assembled /\ ~LANG_NODESETS[lang_key].closing_is_brace
  /\ source_code = PyElse.source /\ line_number = 3
  /\ relevant_lines = 1 .. 5
  /\ f_end = 6 /\ NonBlank(lines[f_end + 1])
  /\ comment_omitted(line_comment) \notin Range(out)
  /\ out = SubSeq(lines, 1, 6)

----------------------------------------------------------------------------
\* The block-comment openers and closers of the language.
Openers == {CommentStyleOf(lang_key).block[p][1] : p \in DOMAIN CommentStyleOf(lang_key).block}
Closers == {CommentStyleOf(lang_key).block[p][2] : p \in DOMAIN CommentStyleOf(lang_key).block}

\* One line read piece by piece from piece k on: whether a block comment is
\* open at its end, whether every piece that is not white space lies in a
\* comment (all), and whether the line holds any comment at all (some).
RECURSIVE ReadLine(_, _, _, _, _)
ReadLine(s, k, inside, all, some) ==
  IF k > Len(s) THEN [inside |-> inside, all |-> all, some |-> some \/ inside]
  ELSE IF inside
  THEN ReadLine(s, k + 1, s[k] \notin Closers, all, TRUE)
  ELSE IF s[k] \in Openers THEN ReadLine(s, k + 1, TRUE, all, TRUE)
  ELSE IF s[k] \in Range(CommentStyleOf(lang_key).line)
  THEN [inside |-> FALSE, all |-> all, some |-> TRUE]
  ELSE ReadLine(s, k + 1, FALSE, all /\ ~NonBlank(<<s[k]>>), some)

\* The rows (0-based) from row i - 1 on whose entire content is comment, a
\* block comment being open or not at the start of row i - 1.
RECURSIVE EntirelyComment(_, _)
EntirelyComment(i, inside) ==
  IF i > Len(lines) THEN {}
  ELSE LET r == ReadLine(lines[i], 1, inside, TRUE, inside)
       IN (IF r.all /\ r.some THEN {i - 1} ELSE {}) \cup EntirelyComment(i + 1, r.inside)

\* compute_comment_lines has been called.
CommentsComputed ==
  mode = "compress" /\ target_node # 0 /\ pc \in {"control_headers", "merge", "build", "finish"}

\* C23: compute_comment_lines classifies a line as comment-only exactly
\* when its entire content is comment: it starts with a line-comment prefix
\* after leading white space, or it is fully covered by a block comment, the
\* open state being carried from line to line; a line with code before an
\* opener or after a closer is not comment-only.
C23_CommentOnlyLines ==
  CommentsComputed => comment_only_lines = EntirelyComment(1, FALSE)

\* What the code keeps: every line whose entire content is comment is
\* classified, and every classified line holds a comment.
C23_CommentLinesHoldComment ==
  CommentsComputed =>
    /\ EntirelyComment(1, FALSE) \subseteq comment_only_lines
    /\ \A i \in comment_only_lines :
         \E k \in DOMAIN lines[i + 1] :
           lines[i + 1][k] \in Openers \cup Closers \cup Range(CommentStyleOf(lang_key).line)

\* The line `if (s > 100) { /* guard */' is classified as comment-only.
C23_CodeBeforeOpenerClassified ==
  /\ CommentsComputed /\ source_code = ScenarioA.source
  /\ lines[17] = Ind4 \o <<"if (s > 100)", " ", "{", " ", "/*", " guard ", "*/">>
  /\ 16 \in comment_only_lines
  /\ 16 \notin EntirelyComment(1, FALSE)
  /\ {6, 15, 19} \subseteq EntirelyComment(1, FALSE)

----------------------------------------------------------------------------
\* The declarators with an initializer under node n: name, "=", value.
Declarators(n) ==
  {d \in Subtree(tree, n) : /\ tree[d].type \in {"init_declarator", "variable_declarator"}
                            /\ Len(tree[d].children) >= 3}

\* The names the declaration n binds and the identifiers of its initializers.
BoundNames(n) ==
  UNION {collect_idents_in_node(tree, Head(tree[d].children), nodeset) : d \in Declarators(n)}
InitializerIds(n) ==
  UNION {collect_idents_in_node(tree, Last(tree[d].children), nodeset) : d \in Declarators(n)}

\* The declarations with an initializer that the slicer has classified.
ClassifiedDeclarations ==
  IF mode = "compress" /\ tree # <<>> /\ "declaration" \in DOMAIN nodeset
  THEN {n \in matched : is_declaration(tree, n, nodeset) /\ Declarators(n) # {}}
  ELSE {}

\* C24: for a declaration with an initializer split_reads_writes puts the
\* names the declaration binds into writes and every identifier of the
\* initializer into reads; an identifier that occurs in the initializer
\* only is in reads and not in writes.
C24_DeclarationRoles ==
  \A n \in ClassifiedDeclarations :
    LET r == split_reads_writes(tree, n, lang_key, nodeset) IN
    /\ BoundNames(n) \subseteq r.writes
    /\ InitializerIds(n) \subseteq r.reads
    /\ (InitializerIds(n) \ BoundNames(n)) \cap r.writes = {}

\* What the code does: every identifier under the declaration is a write,
\* and none of them is a read.
C24_DeclarationAllWrites ==
  \A n \in ClassifiedDeclarations :
    LET r == split_reads_writes(tree, n, lang_key, nodeset) IN
    /\ BoundNames(n) \cup InitializerIds(n) \subseteq r.writes
    /\ r.reads = {}

\* `int s = a + b;' has been classified and the parameter a, which no
\* statement assigns, is reported as written.
C24_InitializerReportedWritten ==
  /\ SliceReturned /\ source_code = ScenarioA.source
  /\ \E n \in ClassifiedDeclarations :
       BoundNames(n) = {"s"} /\ InitializerIds(n) = {"a", "b"}
  /\ "a" \in result.meta.identifiers.writes
  /\ "a" \notin result.meta.identifiers.reads

----------------------------------------------------------------------------
\* The nodes split_reads_writes has returned a pair for: the target node and
\* the matched key statements.
ClassifiedNodes ==
  IF Seeded THEN {target_node} \cup matched ELSE {}

\* C25: the pair (reads, writes) of split_reads_writes covers exactly the
\* identifiers of the subtree: reads and writes together are the set
\* collect_idents_in_node gives for the same root, and every identifier that
\* is not in writes is in reads.
C25_ReadsWritesCoverIdentifiers ==
  /\ \A n \in ClassifiedNodes :
       LET r == split_reads_writes(tree, n, lang_key, nodeset)
           ids == collect_idents_in_node(tree, n, nodeset)
       IN /\ r.reads \cup r.writes = ids
          /\ ids \ r.writes \subseteq r.reads
  /\ Seeded => seed_reads \cup seed_writes = collect_idents_in_node(tree, target_node, nodeset)

\* A classified statement with a write and with a read that is no write, and
\* a target node that is an identifier without a role of its own.
C25_Witness ==
  /\ Seeded /\ pc = "done"
  /\ \E n \in matched :
       LET r == split_reads_writes(tree, n, lang_key, nodeset) IN
       r.writes # {} /\ r.reads \ r.writes # {} /\ r.reads \cap r.writes # {}
  /\ is_identifier(tree, target_node, nodeset)
  /\ seed_reads = {node_text(tree, target_node)}

----------------------------------------------------------------------------
\* The keys of a language profile the slicer reads.
ProfileKeys ==
  {"function", "block", "key", "ident", "member_like", "assign", "declaration", "call",
   "loop", "control", "closing_is_brace", "line_comment_prefix"}

\* C26: every language key detect_language returns has a profile with every
\* role set the slicer reads, closing_is_brace and the comment syntax, so
\* slicing a function of a supported language ends with a returned result
\* and never with a failure on a missing role.
C26_ProfilesDefineEveryRole ==
  (mode = "compress" /\ lang_key # "") =>
    /\ lang_key \in DOMAIN LANG_NODESETS
    /\ ProfileKeys \subseteq DOMAIN LANG_NODESETS[lang_key]
    /\ lang_key \in DOMAIN COMMENT_STYLE
    /\ pc # "raised"

\* What the code keeps: the profiles of cpp, python, javascript and java
\* are complete and slicing in these languages returns.
C26_FirstFourProfilesComplete ==
  (mode = "compress" /\ lang_key \in {"cpp", "python", "javascript", "java"}) =>
    /\ ProfileKeys \subseteq DOMAIN LANG_NODESETS[lang_key]
    /\ lang_key \in DOMAIN COMMENT_STYLE
    /\ pc # "raised"

\* Slicing the Go function fails with KeyError at the seed step.
C26_MissingRoleRaised ==
  /\ mode = "compress" /\ pc = "raised" /\ exception = "KeyError"
  /\ lang_key = "go" /\ source_code = GoFunc.source /\ line_number = 4
  /\ func_node # 0 /\ target_node # 0
  /\ {"assign", "declaration"} \cap DOMAIN LANG_NODESETS[lang_key] = {}
  /\ \A k \in {"csharp", "typescript", "go", "ruby", "kotlin"} :
       {"assign", "declaration"} \cap DOMAIN LANG_NODESETS[k] = {}

-----------------------------------------------------------------------------
\* The tokens that start a comment in the language.
CommentTokens ==
  Range(CommentStyleOf(lang_key).line) \cup Openers

\* The position (1-based) of the piece that starts the comment of a line
\* read from piece i on: the first comment token outside a string literal;
\* 0 when the line has no comment.
RECURSIVE CommentStart(_, _, _)
CommentStart(line, i, in_string) ==
  IF i > Len(line) THEN 0
  ELSE IF line[i] = Quote THEN CommentStart(line, i + 1, ~in_string)
  ELSE IF ~in_string /\ line[i] \in CommentTokens THEN i
  ELSE CommentStart(line, i + 1, in_string)

\* The line has code followed by a comment.
CodeThenComment(line) ==
  LET c == CommentStart(line, 1, FALSE) IN c > 0 /\ NonBlank(SubSeq(line, 1, c - 1))

\* The line's indentation, an ellipsis and the comment from its delimiter on.
CommentOnly(line) ==
  SubSeq(line, 1, LeadingWs(line)) \o <<Ellipsis, " ">>
  \o SubSeq(line, CommentStart(line, 1, FALSE), Len(line))

\* The comments of the omitted rows r..last that follow code, in row order.
RECURSIVE OmittedComments(_, _)
OmittedComments(r, last) ==
  IF r > last THEN <<>>
  ELSE (IF r \notin relevant_lines /\ CodeThenComment(lines[r + 1])
        THEN <<CommentOnly(lines[r + 1])>> ELSE <<>>)
       \o OmittedComments(r + 1, last)

\* What mask_code_keep_comment makes of the omitted rows r..last.
RECURSIVE OmittedMasked(_, _)
OmittedMasked(r, last) ==
  IF r > last THEN <<>>
  ELSE (IF r \notin relevant_lines /\ mask_code_keep_comment(lines[r + 1], lang_key) # <<>>
        THEN <<mask_code_keep_comment(lines[r + 1], lang_key)>> ELSE <<>>)
       \o OmittedMasked(r + 1, last)

HasEllipsis(line) == Ellipsis \in Range(line)

\* Every masked line of the output follows the marker of its gap.
MasksFollowMarker ==
  \A i \in DOMAIN out :
    HasEllipsis(out[i]) =>
      i > 1 /\ (out[i - 1] = comment_omitted(line_comment) \/ HasEllipsis(out[i - 1]))

\* C27: with preserve_inline_comments the masked lines of the assembled
\* output are, in source order and after the omission marker of their gap,
\* one line per omitted row that has code followed by a comment, holding
\* only the row's indentation, an ellipsis and the comment from its starting
\* delimiter to the end of the row (so nothing of the row's code); omitted
\* rows without such a comment add nothing, and with the option disabled the
\* output holds no masked line.
C27_MaskedLinesHoldOnlyComments ==
  Assembled =>
    /\ SelectSeq(out, HasEllipsis)
         = IF preserve_inline_comments THEN OmittedComments(BodyStart, BodyEnd) ELSE <<>>
    /\ MasksFollowMarker

\* What the code keeps: the masked lines are the omitted rows before the
\* function's last row cut at the first comment token that follows something
\* other than white space, whether or not that token lies in a string
\* literal, whenever the relevant rows lie inside the function.
C27_MaskedFromFirstCommentToken ==
  (Assembled /\ relevant_lines \subseteq f_start .. f_end) =>
    /\ SelectSeq(out, HasEllipsis)
         = IF preserve_inline_comments THEN OmittedMasked(BodyStart, f_end - 1) ELSE <<>>
    /\ MasksFollowMarker

\* An omitted row whose string literal holds the comment token: the masked
\* line shows the rest of the literal.
C27_LiteralShownInMaskedLine ==
  /\ Assembled /\ preserve_inline_comments
  /\ source_code = PyStr.source /\ line_number = 3
  /\ 1 \notin relevant_lines
  /\ CommentOnly(lines[2]) = Ind4 \o <<Ellipsis, " ", "#", " note">>
  /\ out = << lines[1],
              comment_omitted(line_comment),
              Ind4 \o <<Ellipsis, " ", "#", "b", Quote, " ", " ", "#", " note">>,
              lines[3] >>

-----------------------------------------------------------------------------
\* A line of the output that is a source line as it stands: neither an
\* omission marker nor a masked line.
Verbatim(line) == line # comment_omitted(line_comment) /\ ~HasEllipsis(line)

\* The lines V[i..] are source lines of strictly increasing rows, the first
\* at row r (1-based) or below.
RECURSIVE InSourceOrder(_, _, _)
InSourceOrder(V, i, r) ==
  IF i > Len(V) THEN TRUE
  ELSE IF r > Len(lines) THEN FALSE
  ELSE IF lines[r] = V[i] THEN InSourceOrder(V, i + 1, r + 1)
  ELSE InSourceOrder(V, i, r + 1)

\* The function's closing row is emitted before the closing line is added:
\* as a header line or as a block line.
ClosingRowEmittedBefore ==
  /\ LANG_NODESETS[lang_key].closing_is_brace
  /\ f_end < BodyStart \/ f_end \in relevant_lines

\* C28: the lines of the assembled output that are emitted verbatim (header
\* lines, block lines and the closing line of a brace-closed function) are
\* source lines of strictly increasing rows, so each source line appears at
\* most once, whatever the shape of the function.
C28_VerbatimLinesInSourceOrder ==
  Assembled => InSourceOrder(SelectSeq(out, Verbatim), 1, 1)

\* What the code keeps: the order holds whenever the closing row was not
\* emitted already and the relevant rows lie inside the function.
C28_InOrderUnlessClosingRowEmitted ==
  (Assembled /\ relevant_lines \subseteq f_start .. f_end /\ ~ClosingRowEmittedBefore) =>
    InSourceOrder(SelectSeq(out, Verbatim), 1, 1)

\* A function whose last line is relevant: the closing line stands twice
\* at the end of the output.
C28_ClosingLineTwice ==
  /\ Assembled /\ ClosingRowEmittedBefore
  /\ f_end \in relevant_lines
  /\ Len(out) >= 2
  /\ out[Len(out)] = lines[f_end + 1]
  /\ out[Len(out) - 1] = lines[f_end + 1]
  /\ ~InSourceOrder(SelectSeq(out, Verbatim), 1, 1)

-----------------------------------------------------------------------------
\* Each child's rows lie within its parent's rows.
SpansNested(T) ==
  \A n \in DOMAIN T : T[n].parent # 0 =>
    T[T[n].parent].srow <= T[n].srow /\ T[n].erow <= T[T[n].parent].erow

\* The lines a call can name for the parsed file: one above the first and
\* one below the last included.
TargetLines == 0 .. Len(splitlines(source_code)) + 1

\* C29: on a syntax tree whose spans are nested, the locator of compress
\* mode (function test first, descent into every child) and the locator of
\* extract mode (nodes whose rows do not contain the line pruned first)
\* return the same node, or both nothing, for every target line.
C29_LocatorsAgree ==
  (Located /\ tree # <<>> /\ SpansNested(tree)) =>
    \A l \in TargetLines :
      find_function_node(tree, 1, nodeset, l)
        = find_enclosing_function(tree, 1, nodeset.function, l)

\* A parsed tree with a function nested in another: on a line of the inner
\* one both locators return the outer one, on some line both return a node
\* and on some line both return nothing.
C29_Witness ==
  /\ Located /\ tree # <<>> /\ SpansNested(tree)
  /\ func_node # 0
  /\ find_function_node(tree, 1, nodeset, line_number) = func_node
  /\ find_enclosing_function(tree, 1, nodeset.function, line_number) = func_node
  /\ \E n \in EnclosingFunctions : n # func_node /\ func_node \in AncestorsOrSelf(tree, n)
  /\ \E l \in TargetLines :
       /\ find_function_node(tree, 1, nodeset, l) = 0
       /\ find_enclosing_function(tree, 1, nodeset.function, l) = 0

-----------------------------------------------------------------------------
\* The kinds of result compress_function_from_source returns.
ValidationDiagnostic ==
  /\ result.text \in {InvalidLineText, EmptySourceText, BeyondEndText}
  /\ result.meta = [target_line |-> line_number]

UnsupportedDiagnostic ==
  /\ DOMAIN result.meta = {"target_line"}
  /\ Len(result.text) >= 3
  /\ SubSeq(result.text, 1, 3) = <<"//", " ", "Unsupported file extension: ">>

FunctionNotFoundDiagnostic ==
  /\ "language" \in DOMAIN result.meta
  /\ result.text = <<line_comment, " Function not found.">>
  /\ DOMAIN result.meta = {"language", "target_line"}

TargetNotFoundDiagnostic ==
  /\ "language" \in DOMAIN result.meta
  /\ result.text = <<line_comment, " Target line not found in function.">>

FullSlice ==
  /\ {"language", "function_lines", "header_lines", "blocks", "identifiers"}
       \subseteq DOMAIN result.meta
  /\ func_node # 0 /\ target_node # 0

\* C30: in compress mode, once an enclosing function is located a target
\* node is located inside it, on the target line; the 'Target line not
\* found in function.' diagnostic is never returned, and every returned
\* result is an input-validation diagnostic, the unsupported-language
\* diagnostic, the 'Function not found.' diagnostic or a full slice.
C30_TargetLocatedInFunction ==
  /\ (mode = "compress" /\ Located /\ pc # "find_target" /\ func_node # 0) =>
       /\ target_node \in Subtree(tree, func_node)
       /\ CoversLine(tree, target_node, line_number)
  /\ (mode = "compress" /\ pc = "done") =>
       /\ ~TargetNotFoundDiagnostic
       /\ \/ ValidationDiagnostic
          \/ UnsupportedDiagnostic
          \/ FunctionNotFoundDiagnostic
          \/ FullSlice

\* A slice returned for the first line of the located function: the target
\* node lies on that row, below the function node.
C30_Witness ==
  /\ mode = "compress" /\ pc = "done" /\ FullSlice
  /\ line_number = f_start + 1
  /\ tree[func_node].erow > tree[func_node].srow
  /\ target_node \in Subtree(tree, func_node) \ {func_node}
  /\ tree[target_node].srow = f_start /\ tree[target_node].erow = f_start

\* Each of the three kinds of diagnostic is returned.
C30_WitnessDiagnostics ==
  /\ mode = "compress" /\ pc = "done"
  /\ ValidationDiagnostic \/ UnsupportedDiagnostic \/ FunctionNotFoundDiagnostic

====
